---- MODULE Spec2Model ----
(***************************************************************************)
(* A model of the project-management client (aalimsoomro/boltpmapp).       *)
(*                                                                         *)
(* The repository holds two generations of some components.  The variable  *)
(* build says which one is deployed:                                       *)
(*   "pages"   : src/src/App.tsx with src/src/pages/NewProject.tsx         *)
(*   "unnamed" : src/unnamed/part_000 (App) with src/unnamed/part_003      *)
(*               (NewProject)                                              *)
(* The Files page (src/unnamed/part_005) and the auth context              *)
(* (src/unnamed/part_001) exist once.                                      *)
(*                                                                         *)
(* Every backend call (table insert/delete, storage upload/remove) either  *)
(* succeeds or returns an error; which one is the environment's choice.    *)
(*                                                                         *)
(* Text is modelled as a sequence of one-character strings, so that the    *)
(* conversions Number() and parseFloat() are computed character by         *)
(* character.                                                              *)
(***************************************************************************)
EXTENDS Integers, Sequences, FiniteSets, TLC

VARIABLES
  build,        \* which generation of App / NewProject is deployed
  \* ---- the create-project form (react-hook-form state) ----
  formName,     \* the project name input
  fields,       \* the activities field array: sequence of rows
  toast,        \* the last notification shown by the create-project page
  csvFile,      \* the last file handed to the CSV handler (NoFile before)
  \* ---- the remote store ----
  projects,     \* rows of table projects
  activities,   \* rows of table activities
  nextRowId,    \* source of generated primary keys
  \* ---- one create-project submission ----
  pc,           \* position of onSubmit
  isSubmitting, \* isSubmitting (pages) / loading (unnamed)
  submitted,    \* the data onSubmit was called with
  before,       \* the store as it was when onSubmit was called
  newProjectId, \* projectData.id, 0 before the insert returned
  failedStep,   \* which call of the submission returned an error
  cleanup,      \* outcome of the compensating delete
  navigatedTo,  \* target of navigate(), NoNav when not called
  inFlight,     \* onSubmit calls between their first await and their finally
  \* ---- the Files page ----
  blobs,        \* storage bucket project-files: set of object paths
  fileRows,     \* rows of table files
  nextFileId,   \* source of generated file ids
  clock,        \* Date.now()
  files,        \* the page's local file list
  fetching,     \* TRUE while a fetchFiles call is in flight
  selectedFile, \* the selected file's name, NoName when none
  uploading,    \* the uploading flag
  up,           \* the upload in progress / last finished
  del,          \* the delete in progress / last finished
  \* ---- auth context and router ----
  authLoading,  \* AuthContext.loading
  authUser,     \* AuthContext.user, NoUser when null
  signingIn,    \* TRUE while AuthContext.signIn awaits the backend
  signingUp,    \* TRUE while AuthContext.signUp awaits the backend
  sessionChecked, \* TRUE once getSession or an auth-change event resolved
  requested,    \* the path the visitor last asked for
  location,     \* the router's current location
  screen,       \* what the router renders at that location
  \* ---- Notifications page ----
  notifRows,     \* the notifications table: id -> read
  notifications, \* the page's local list
  notifFetching, \* TRUE while fetchNotifications is in flight
  marks,         \* the markAsRead / markAllAsRead calls in flight, each with
                 \* the list its closure holds
  \* ---- User Management page ----
  userRows,      \* the users table: id -> [role, approved]
  users,         \* the page's local list
  usersFetching, \* TRUE while fetchUsers is in flight
  userCall,      \* the handleRoleChange / handleApproveDeny calls in flight
  \* ---- Reports page ----
  reportRows,     \* what the projects query of the report returns
  reportProjects, \* the page's projects state, each with its total_budget
  reportLoading,  \* TRUE while fetchProjectsForReport is in flight
  reportFilters,  \* the filters state
  csvData,        \* the data handed to CSVLink by the last render
  \* ---- Edit Project page and the tables around a project ----
  schema,         \* which of the migration's table definitions is installed
  edits,          \* per browser tab: the edit form's submission
  commentRows,    \* the comments table
  \* ---- the auth service and the AuthProvider's calls to it ----
  session,        \* the user of the session the auth client holds (NoUser: none)
  getSession,     \* the initial getSession() of the AuthProvider's effect
  authCalls,      \* signIn / signOut calls of the context in flight
  accounts,       \* the accounts of the auth service (auth.users)
  signup          \* the Signup page's submission

formVars   == <<formName, fields, toast, csvFile>>
storeVars  == <<projects, activities, nextRowId>>
submitVars == <<pc, isSubmitting, submitted, before, newProjectId, failedStep, cleanup,
                navigatedTo, inFlight>>
filesVars  == <<blobs, fileRows, nextFileId, clock, files, fetching, selectedFile, uploading, up, del>>
routeVars  == <<authLoading, authUser, signingIn, signingUp, sessionChecked,
               requested, location, screen>>
notifVars  == <<notifRows, notifications, notifFetching, marks>>
userVars   == <<userRows, users, usersFetching, userCall>>
reportVars == <<reportRows, reportProjects, reportLoading, reportFilters, csvData>>
editVars   == <<schema, edits, commentRows>>
sessVars   == <<session, getSession, authCalls, accounts, signup>>
moreVars   == <<notifVars, userVars, reportVars, editVars, sessVars>>
vars == <<build, formVars, storeVars, submitVars, filesVars, routeVars, moreVars>>

Builds == {"pages", "unnamed"}

(***************************************************************************)
(* Bounds of the model.                                                    *)
(***************************************************************************)
MaxCsvRows == 2     \* data lines of an imported CSV file
MaxFields == 2      \* rows the user adds to the form by hand
MaxRowId == 3       \* generated primary keys of the store
MaxClock == 1       \* values of Date.now()
MaxFileId == 1      \* generated file ids

(***************************************************************************)
(* JavaScript values.                                                      *)
(***************************************************************************)
Num(n) == [t |-> "num", v |-> n]
NaN == [t |-> "NaN", v |-> 0]

Digits == {"0", "1", "2", "3", "4", "5", "6", "7", "8", "9"}

DigitVal(c) ==
  CASE c = "0" -> 0 [] c = "1" -> 1 [] c = "2" -> 2 [] c = "3" -> 3
    [] c = "4" -> 4 [] c = "5" -> 5 [] c = "6" -> 6 [] c = "7" -> 7
    [] c = "8" -> 8 [] c = "9" -> 9

RECURSIVE DecimalValue(_)
\* the value of a string of digits
DecimalValue(s) ==
  IF s = <<>> THEN 0
  ELSE 10 * DecimalValue(SubSeq(s, 1, Len(s) - 1)) + DigitVal(s[Len(s)])

RECURSIVE DigitPrefix(_)
\* the longest prefix of s made of digits
DigitPrefix(s) ==
  IF s = <<>> \/ s[1] \notin Digits THEN <<>>
  ELSE <<s[1]>> \o DigitPrefix(Tail(s))

\* Number(s) for a string s: "" is 0, a numeric literal its value, else NaN
Number(s) ==
  IF s = <<>> THEN Num(0)
  ELSE IF DigitPrefix(s) = s THEN Num(DecimalValue(s))
  ELSE NaN

\* parseFloat(s) for a string s: the longest numeric prefix, NaN without one
ParseFloat(s) ==
  IF DigitPrefix(s) = <<>> THEN NaN ELSE Num(DecimalValue(DigitPrefix(s)))

\* x || 0 for a number x: NaN and 0 are falsy
OrZero(x) == IF x.t = "NaN" \/ x.v = 0 THEN Num(0) ELSE x

(***************************************************************************)
(* Papa.parse(file, {header: true, skipEmptyLines: true}).                 *)
(* A file is [header |-> sequence of column names, lines |-> sequence of   *)
(* data lines], a data line being its sequence of cells.                   *)
(***************************************************************************)
Undefined == [def |-> FALSE, s |-> <<>>]
Str(s) == [def |-> TRUE, s |-> s]

\* an empty line is a line with one empty cell
IsEmptyLine(line) == Len(line) = 1 /\ line[1] = <<>>

\* the row object of a data line: header name -> cell, for the cells present
RowObject(header, line) ==
  [h \in {header[i] : i \in 1..(IF Len(line) < Len(header) THEN Len(line) ELSE Len(header))}
     |-> line[CHOOSE i \in 1..Len(header) : header[i] = h]]

\* row[key]
Field(row, key) == IF key \in DOMAIN row THEN Str(row[key]) ELSE Undefined

\* a non-empty string is truthy, '' and undefined are falsy
Truthy(x) == x.def /\ x.s # <<>>

\* x || ''
OrEmpty(x) == IF Truthy(x) THEN x.s ELSE <<>>

DataLines(file) == SelectSeq(file.lines, LAMBDA l : ~IsEmptyLine(l))

PapaData(file) ==
  [i \in 1..Len(DataLines(file)) |-> RowObject(file.header, DataLines(file)[i])]

\* results.errors: one TooFewFields / TooManyFields entry per ragged line
PapaErrors(file) ==
  {i \in 1..Len(DataLines(file)) : Len(DataLines(file)[i]) # Len(file.header)}

(***************************************************************************)
(* The create-project form.  A row of the activities field array is        *)
(* [id, name, quantity, unit, rate]; id is the key useFieldArray           *)
(* generates.  The optional start_date / end_date of a row are left out:   *)
(* no modelled CSV has these columns, so they are undefined throughout.    *)
(***************************************************************************)
NoToast == [title |-> "", detail |-> "", n |-> 0]
Toast(title, detail, n) == [title |-> title, detail |-> detail, n |-> n]

NoFile == [header |-> <<>>, lines |-> <<>>]

Activity(name, quantity, unit, rate) ==
  [name |-> name, quantity |-> quantity, unit |-> unit, rate |-> rate]

WithId(a, id) ==
  [id |-> id, name |-> a.name, quantity |-> a.quantity, unit |-> a.unit, rate |-> a.rate]

WithoutId(f) == Activity(f.name, f.quantity, f.unit, f.rate)

Values(fs) == [i \in 1..Len(fs) |-> WithoutId(fs[i])]

Ids(fs) == {fs[i].id : i \in 1..Len(fs)}

RECURSIVE FreshIds(_, _)
\* n keys as generateId() makes them: distinct, and none of them in used
FreshIds(used, n) ==
  IF n = 0 THEN <<>>
  ELSE LET k == CHOOSE k \in 1..(Cardinality(used) + 1) :
                  k \notin used /\ \A j \in 1..(k - 1) : j \in used
       IN <<k>> \o FreshIds(used \cup {k}, n - 1)

\* append(rows): the rows get keys that are not among taken and go to the
\* end of the array
AppendFields(fs, rows, taken) ==
  LET ids == FreshIds(taken, Len(rows))
  IN fs \o [i \in 1..Len(rows) |-> WithId(rows[i], ids[i])]

\* remove(): without an index, every row goes
RemoveAll(fs) == <<>>

\* remove(index)
RemoveAt(fs, index) == SubSeq(fs, 1, index - 1) \o SubSeq(fs, index + 1, Len(fs))

\* the row the Add Activity button appends
DefaultActivity == Activity(<<>>, Num(0), <<>>, Num(0))

AddActivity ==
  /\ pc = "idle"
  /\ Len(fields) < MaxFields
  /\ fields' = AppendFields(fields, <<DefaultActivity>>, Ids(fields))
  /\ UNCHANGED <<formName, toast, csvFile>>

RemoveActivity ==
  /\ pc = "idle"
  /\ \E index \in 1..Len(fields) : fields' = RemoveAt(fields, index)
  /\ UNCHANGED <<formName, toast, csvFile>>

(***************************************************************************)
(* handleCsvUpload (pages) / handleCSVUpload (unnamed): the complete       *)
(* callback of Papa.parse.                                                 *)
(***************************************************************************)
\* the results.data.map(...) callback of src/src/pages/NewProject.tsx
MapRowPages(row) ==
  Activity(OrEmpty(Field(row, "Activity Name")),
           OrZero(ParseFloat(Field(row, "Quantity").s)),
           OrEmpty(Field(row, "Unit")),
           OrZero(ParseFloat(Field(row, "Rate").s)))

\* the results.data.map(...) callback of src/unnamed/part_003
MapRowUnnamed(row) ==
  Activity(OrEmpty(Field(row, "Activity Name")),
           IF Truthy(Field(row, "Qty")) THEN Number(Field(row, "Qty").s) ELSE Num(0),
           OrEmpty(Field(row, "Unit")),
           IF Truthy(Field(row, "Rate")) THEN Number(Field(row, "Rate").s) ELSE Num(0))

MapRow(b, row) == IF b = "pages" THEN MapRowPages(row) ELSE MapRowUnnamed(row)

\* a filter that lets every row through
HasNameAny(activity) == TRUE

\* .filter(activity => activity.name)
HasName(activity) == activity.name # <<>>

ParsedActivities(b, file) ==
  SelectSeq([i \in 1..Len(PapaData(file)) |-> MapRow(b, PapaData(file)[i])], HasName)

\* pages returns early when results.errors is not empty; unnamed never looks
ImportAborts(b, file) == b = "pages" /\ PapaErrors(file) # {}

\* an import that appends without clearing
ReplaceFieldsMerge(fs, rows) == AppendFields(fs, rows, Ids(fs))

\* pages: remove(); append(newActivities).  unnamed: setValue('activities', ...)
ReplaceFields(fs, rows) == AppendFields(RemoveAll(fs), rows, Ids(fs))

HandleCsvUpload(file) ==
  /\ pc = "idle"
  /\ csvFile = NoFile      \* one import per form session is explored
  /\ csvFile' = file
  /\ IF ImportAborts(build, file)
       THEN /\ toast' = Toast("CSV Parsing Error", "Could not parse CSV file", 0)
            /\ UNCHANGED fields
       ELSE /\ fields' = ReplaceFields(fields, ParsedActivities(build, file))
            /\ toast' = Toast("CSV Imported", "activities loaded from CSV",
                              Len(ParsedActivities(build, file)))
  /\ UNCHANGED formName

(***************************************************************************)
(* Initial values of each group of variables.                              *)
(***************************************************************************)
NoData == [name |-> <<>>, activities |-> <<>>]
NoNav == <<>>
NoName == <<>>
NoUser == 0

FormInit ==
  /\ formName = <<>>
  /\ fields = <<>>
  /\ toast = NoToast
  /\ csvFile = NoFile

StoreInit ==
  /\ projects = {}
  /\ activities = {}
  /\ nextRowId = 1

SubmitInit ==
  /\ pc = "idle"
  /\ isSubmitting = FALSE
  /\ submitted = NoData
  /\ before = [projects |-> {}, activities |-> {}]
  /\ newProjectId = 0
  /\ failedStep = "none"
  /\ cleanup = "none"
  /\ navigatedTo = NoNav
  /\ inFlight = 0

NoPath == [prefix |-> "", project |-> 0, stamp |-> <<>>, name |-> <<>>]
NoRow == [id |-> 0, name |-> <<>>, url |-> [base |-> "", path |-> NoPath],
          project_id |-> 0, user_id |-> 0]

UpIdle == [pc |-> "idle", name |-> <<>>, path |-> NoPath, failed |-> "none",
           cleanup |-> "none", shown |-> NoToast]
DelIdle == [pc |-> "idle", row |-> NoRow, path |-> NoPath, failed |-> "none",
            blob |-> "none", shown |-> NoToast]

FilesInit ==
  /\ blobs = {}
  /\ fileRows = {}
  /\ nextFileId = 1
  /\ clock = 0
  /\ files = {}
  /\ fetching = FALSE
  /\ selectedFile = NoName
  /\ uploading = FALSE
  /\ up = UpIdle
  /\ del = DelIdle

NotifInit ==
  /\ notifRows = <<>>
  /\ notifications = <<>>
  /\ notifFetching = FALSE
  /\ marks = <<>>

\* the handlers of the page that may be awaiting the store at one time
UserCallIds == {1, 2}

NoUserCall == [kind |-> "none", id |-> 0, role |-> "", approved |-> FALSE, closure |-> <<>>]

UsersInit ==
  /\ userRows = <<>>
  /\ users = <<>>
  /\ usersFetching = FALSE
  /\ userCall = [c \in UserCallIds |-> NoUserCall]

NoFilters == [project |-> <<>>, vendor |-> "", status |-> ""]

ReportsInit ==
  /\ reportRows = <<>>
  /\ reportProjects = <<>>
  /\ reportLoading = FALSE
  /\ reportFilters = NoFilters
  /\ csvData = <<>>

Tabs == {1, 2}

NoEditData == [name |-> <<>>, activities |-> <<>>]

EditIdle == [pc |-> "idle", data |-> NoEditData, before |-> {}, failed |-> "none",
             shown |-> NoToast, navigatedTo |-> NoNav, isSubmitting |-> FALSE]

EditInit ==
  /\ schema = "owner"
  /\ edits = [t \in Tabs |-> EditIdle]
  /\ commentRows = {}

\* no call to the auth service is under way
AuthCallIds == {1, 2}
NoAuthCall == [pc |-> "idle", kind |-> "none", user |-> 0]
SignupIdle == [pc |-> "idle", email |-> "", account |-> 0, failed |-> "none",
               shown |-> NoToast]

SessionInit ==
  /\ session = NoUser
  /\ getSession = [pc |-> "done", user |-> NoUser]
  /\ authCalls = [c \in AuthCallIds |-> NoAuthCall]
  /\ accounts = {}
  /\ signup = SignupIdle

MoreInit == NotifInit /\ UsersInit /\ ReportsInit /\ EditInit /\ SessionInit

RouteInit ==
  /\ authLoading = TRUE
  /\ authUser = NoUser
  /\ signingIn = FALSE
  /\ signingUp = FALSE
  /\ sessionChecked = FALSE
  /\ requested = <<>>
  /\ location = <<>>
  /\ screen = "Loading"

(***************************************************************************)
(* Typing into the form.                                                   *)
(***************************************************************************)
EmptyString == [t |-> "empty", v |-> 0]

ProjectNameInputs == { <<>>, <<"P">> }

\* what the user types into the name, quantity and rate inputs of a row
RowInputs ==
  { [name |-> <<"a">>, quantity |-> <<"2">>, rate |-> <<"2">>],
    [name |-> <<"a">>, quantity |-> <<>>, rate |-> <<"2">>],
    [name |-> <<>>, quantity |-> <<>>, rate |-> <<>>] }

\* the value a number input leaves in the form: pages registers it with
\* valueAsNumber (NaN for an empty input), unnamed stores '' for an empty
\* input and Number(text) otherwise
InputValue(b, text) ==
  IF b = "pages"
    THEN (IF text = <<>> THEN NaN ELSE Number(text))
    ELSE (IF text = <<>> THEN EmptyString ELSE Number(text))

SetProjectName ==
  /\ pc = "idle"
  /\ \E text \in ProjectNameInputs : formName' = text
  /\ UNCHANGED <<fields, toast, csvFile>>

\* the user fills in the inputs of one row
EditActivity ==
  /\ pc = "idle"
  /\ \E index \in 1..Len(fields), typed \in RowInputs :
       fields' = [fields EXCEPT ![index].name = typed.name,
                                ![index].quantity = InputValue(build, typed.quantity),
                                ![index].rate = InputValue(build, typed.rate)]
  /\ UNCHANGED <<formName, toast, csvFile>>

(***************************************************************************)
(* Validation run by handleSubmit before it calls onSubmit.                *)
(***************************************************************************)
\* pages: register(..., {required}) on the project name and each row's name
ValidPages(name, fs) ==
  /\ name # <<>>
  /\ \A i \in 1..Len(fs) : fs[i].name # <<>>

\* unnamed, activitySchema: '' becomes undefined and passes; any other value
\* goes through Number(val) and must be a number >= 0
ValidNumberUnnamed(x) == x.t = "empty" \/ (x.t = "num" /\ x.v >= 0)

\* unnamed: zodResolver(formSchema)
ValidUnnamed(name, fs) ==
  /\ name # <<>>
  /\ \A i \in 1..Len(fs) :
       /\ fs[i].name # <<>>
       /\ ValidNumberUnnamed(fs[i].quantity)
       /\ ValidNumberUnnamed(fs[i].rate)

Valid(b, name, fs) == IF b = "pages" THEN ValidPages(name, fs) ELSE ValidUnnamed(name, fs)

(***************************************************************************)
(* The remote store.  insert generates the primary keys; deleting a        *)
(* project deletes its activities (ON DELETE CASCADE).                     *)
(***************************************************************************)
ProjectRow(id, name, owner) == [id |-> id, name |-> name, owner |-> owner]

UndefinedNumber == [t |-> "undefined", v |-> 0]
Null == [t |-> "null", v |-> 0]

\* the value a numeric column takes from a row of an insert: the request
\* names the columns after the keys of the rows and its JSON body leaves out
\* a key whose value is undefined, which the store reads as NULL
ColumnValue(x) == IF x.t = "undefined" THEN Null ELSE x

ActivityRow(id, a) ==
  [id |-> id, project_id |-> a.project_id, name |-> a.name,
   quantity |-> ColumnValue(a.quantity), unit |-> a.unit,
   rate |-> ColumnValue(a.rate)]

\* from('activities').insert(rows): one statement, all rows or none
InsertActivities(rows, next) == {ActivityRow(next + i - 1, rows[i]) : i \in 1..Len(rows)}

\* from('projects').delete().eq('id', id), with the cascade
DeleteProject(id) ==
  /\ projects' = {p \in projects : p.id # id}
  /\ activities' = {a \in activities : a.project_id # id}

(***************************************************************************)
(* onSubmit of the create-project page, one action per stretch of code     *)
(* between two awaits.                                                     *)
(***************************************************************************)
\* value || 0 applied to Number(value) (pages, lines 96-97)
NumberOrZero(x) == IF x.t = "num" THEN OrZero(x) ELSE Num(0)

\* the value zod hands to onSubmit for a number field (unnamed): the
\* preprocess step turns '' into undefined, which the optional number
\* accepts; default(0) applies to an undefined input only, and '' is not
ParsedNumberUnnamed(x) == IF x.t = "empty" THEN UndefinedNumber ELSE x

\* rows that are not linked to the new project
ActivitiesToInsertUnlinked(b, acts, projectId) ==
  [i \in 1..Len(acts) |->
     [project_id |-> 0, name |-> acts[i].name, quantity |-> acts[i].quantity,
      unit |-> acts[i].unit, rate |-> acts[i].rate]]

\* the rows handed to from('activities').insert
ActivitiesToInsert(b, acts, projectId) ==
  [i \in 1..Len(acts) |->
     [project_id |-> projectId,
      name |-> acts[i].name,
      quantity |-> IF b = "pages" THEN NumberOrZero(acts[i].quantity)
                   ELSE ParsedNumberUnnamed(acts[i].quantity),
      unit |-> acts[i].unit,
      rate |-> IF b = "pages" THEN NumberOrZero(acts[i].rate)
               ELSE ParsedNumberUnnamed(acts[i].rate)]]

\* where a successful submission navigates
SuccessTarget(b, projectId) ==
  IF b = "pages" THEN <<"projects", projectId>> ELSE <<"dashboard">>

\* whether a failed activity insert is followed by the compensating delete
Compensates(b) == b = "unnamed"

\* a cleanup whose own error replaces the error of the step it cleans up after
ThrownCleanupError(original, cleaned) == IF cleaned = "failed" THEN "cleanup" ELSE original

\* what is thrown after the compensating call: the error of the step that
\* failed (part_003 line 166: throw activitiesError; part_005 line 111:
\* throw dbError), whatever the compensating call returned
Thrown(original, cleaned) == original

\* the catch and finally blocks
Fails(step, title) ==
  /\ failedStep' = step
  /\ toast' = Toast(title, step, 0)
  /\ isSubmitting' = FALSE
  /\ inFlight' = inFlight - 1
  /\ pc' = "done"
  /\ UNCHANGED <<formName, fields, csvFile, navigatedTo>>

\* a catch block whose notification has no title
ErrorTitleNone(b) == ""

\* the title of the notification of the catch block
ErrorTitle(b) == IF b = "pages" THEN "Error creating project" ELSE "Failed to Create Project"

\* the end of the try block, and finally
Succeeds(projectId) ==
  /\ toast' = Toast(IF build = "pages" THEN "Success" ELSE "Project Created", "", 0)
  /\ IF build = "pages"
       THEN formName' = <<>> /\ fields' = <<>>          \* reset()
       ELSE UNCHANGED <<formName, fields>>
  /\ navigatedTo' = SuccessTarget(build, projectId)
  /\ isSubmitting' = FALSE
  /\ inFlight' = inFlight - 1
  /\ pc' = "done"
  /\ UNCHANGED <<csvFile, failedStep>>

\* a submit button that is never disabled
SubmitDisabledNever(flag) == FALSE

\* <Button type="submit" disabled={isSubmitting}> (NewProject.tsx line 330),
\* disabled={loading} (part_003 line 374)
SubmitDisabled(flag) == flag

\* handleSubmit(onSubmit): validation, then onSubmit up to its first await
OnSubmit ==
  /\ pc # "done"
  /\ ~SubmitDisabled(isSubmitting)
  /\ Valid(build, formName, fields)
  /\ nextRowId + Len(fields) <= MaxRowId
  /\ submitted' = [name |-> formName, activities |-> Values(fields)]
  /\ before' = [projects |-> projects, activities |-> activities]
  /\ newProjectId' = 0
  /\ cleanup' = "none"
  /\ navigatedTo' = NoNav
  /\ IF build = "pages"
       THEN IF authUser = NoUser
              THEN /\ toast' = Toast("Error", "User not authenticated.", 0)
                   /\ pc' = "done"
                   /\ failedStep' = "auth"
                   /\ UNCHANGED <<isSubmitting, inFlight>>
              ELSE /\ isSubmitting' = TRUE
                   /\ inFlight' = inFlight + 1
                   /\ pc' = "insertProject"
                   /\ failedStep' = "none"
                   /\ UNCHANGED toast
       ELSE /\ isSubmitting' = TRUE
            /\ inFlight' = inFlight + 1
            /\ pc' = "getUser"
            /\ failedStep' = "none"
            /\ UNCHANGED toast
  /\ UNCHANGED <<formName, fields, csvFile, storeVars>>

\* unnamed: supabase.auth.getUser() returned
GetUserReturns ==
  /\ pc = "getUser"
  /\ IF authUser = NoUser
       THEN /\ toast' = Toast("Authentication Error", "User not logged in.", 0)
            /\ isSubmitting' = FALSE
            /\ inFlight' = inFlight - 1
            /\ failedStep' = "auth"
            /\ pc' = "done"
       ELSE /\ pc' = "insertProject"
            /\ UNCHANGED <<toast, isSubmitting, inFlight, failedStep>>
  /\ UNCHANGED <<formName, fields, csvFile, storeVars,
                 submitted, before, newProjectId, cleanup, navigatedTo>>

\* from('projects').insert(...).select().single() returned
ProjectInsertReturns ==
  /\ pc = "insertProject"
  /\ \E ok \in BOOLEAN :
       IF ok
         THEN /\ projects' = projects \cup {ProjectRow(nextRowId, submitted.name, authUser)}
              /\ nextRowId' = nextRowId + 1
              /\ newProjectId' = nextRowId
              /\ UNCHANGED activities
              /\ IF Len(submitted.activities) > 0
                   THEN /\ pc' = "insertActivities"
                        /\ UNCHANGED <<formVars, isSubmitting, inFlight, failedStep, navigatedTo>>
                   ELSE Succeeds(nextRowId)
         ELSE /\ Fails("project", ErrorTitle(build))
              /\ UNCHANGED <<storeVars, newProjectId>>
  /\ UNCHANGED <<submitted, before, cleanup>>

\* from('activities').insert(activitiesToInsert) returned
ActivityInsertReturns ==
  /\ pc = "insertActivities"
  /\ \E ok \in BOOLEAN :
       IF ok
         THEN /\ activities' = activities \cup
                   InsertActivities(ActivitiesToInsert(build, submitted.activities, newProjectId),
                                    nextRowId)
              /\ nextRowId' = nextRowId + Len(submitted.activities)
              /\ Succeeds(newProjectId)
              /\ UNCHANGED <<projects, newProjectId>>
         ELSE /\ IF Compensates(build)
                   THEN /\ pc' = "compensate"
                        /\ failedStep' = "activities"
                        /\ UNCHANGED <<formVars, isSubmitting, inFlight, navigatedTo>>
                   ELSE Fails("activities", ErrorTitle(build))
              /\ UNCHANGED <<storeVars, newProjectId>>
  /\ UNCHANGED <<submitted, before, cleanup>>

\* unnamed: the compensating from('projects').delete().eq('id', projectId)
\* returned; its error is not looked at, and activitiesError is thrown
CompensationReturns ==
  /\ pc = "compensate"
  /\ \E ok \in BOOLEAN :
       IF ok
         THEN DeleteProject(newProjectId) /\ cleanup' = "deleted"
         ELSE UNCHANGED <<projects, activities>> /\ cleanup' = "failed"
  /\ Fails(Thrown("activities", cleanup'), ErrorTitle(build))
  /\ UNCHANGED <<nextRowId, submitted, before, newProjectId>>

\* the user goes on: the notification is dismissed; after a failure the form
\* is still there, after a success the page has been left and a later visit
\* mounts a fresh form.  What is remembered of the finished submission is
\* dropped.
Continue ==
  /\ pc = "done"
  /\ IF navigatedTo # NoNav
       THEN formName' = <<>> /\ fields' = <<>>
       ELSE UNCHANGED <<formName, fields>>
  /\ toast' = NoToast
  /\ pc' = "idle"
  /\ isSubmitting' = FALSE
  /\ submitted' = NoData
  /\ before' = [projects |-> {}, activities |-> {}]
  /\ newProjectId' = 0
  /\ failedStep' = "none"
  /\ cleanup' = "none"
  /\ navigatedTo' = NoNav
  /\ UNCHANGED <<csvFile, storeVars, inFlight>>

(***************************************************************************)
(* Spec: the create-project page against the store.                        *)
(***************************************************************************)
Init ==
  /\ build \in Builds
  /\ MoreInit
  /\ FormInit /\ StoreInit /\ SubmitInit /\ FilesInit
  /\ authLoading = FALSE
  /\ authUser \in {NoUser, 1}
  /\ signingIn = FALSE
  /\ signingUp = FALSE
  /\ sessionChecked = TRUE
  /\ requested = <<"projects", "new">>
  /\ location = <<"projects", "new">>
  /\ screen = "NewProject"

pageVars == <<build, filesVars, routeVars, moreVars>>
formOnly == <<build, storeVars, submitVars, filesVars, routeVars, moreVars>>

TypeProjectName == SetProjectName /\ UNCHANGED formOnly
AddActivityRow == AddActivity /\ UNCHANGED formOnly
RemoveActivityRow == RemoveActivity /\ UNCHANGED formOnly
TypeActivity == EditActivity /\ UNCHANGED formOnly
Submit == OnSubmit /\ UNCHANGED pageVars
GetUserDone == GetUserReturns /\ UNCHANGED pageVars
ProjectInsertDone == ProjectInsertReturns /\ UNCHANGED pageVars
ActivityInsertDone == ActivityInsertReturns /\ UNCHANGED pageVars
CompensationDone == CompensationReturns /\ UNCHANGED pageVars
GoOn == Continue /\ UNCHANGED pageVars

Next ==
  \/ TypeProjectName
  \/ AddActivityRow
  \/ RemoveActivityRow
  \/ TypeActivity
  \/ Submit
  \/ GetUserDone
  \/ ProjectInsertDone
  \/ ActivityInsertDone
  \/ CompensationDone
  \/ GoOn

Spec == Init /\ [][Next]_vars

(***************************************************************************)
(* Properties of the create-project submission.                            *)
(***************************************************************************)
SuccessTitles == {"Success", "Project Created"}

\* the submission has finished and reported success
ReportedSuccess == pc = "done" /\ toast.title \in SuccessTitles

\* the submission has finished after its activity insert returned an error
ActivityInsertFailed == pc = "done" /\ failedStep = "activities"

\* C1: once a submission whose activity insert failed (after its project
\* insert succeeded) has finished, the project row it inserted is not in the
\* store.
C1_NoProjectAfterFailedActivityInsert ==
  ActivityInsertFailed => \A p \in projects : p.id # newProjectId

\* C2: after a submission with N activity rows that reports success, the store
\* holds exactly one project row more than before and exactly N activity rows
\* more, each with the new project's id as project_id.
C2_OneProjectAndNActivities ==
  ReportedSuccess =>
    /\ before.projects \subseteq projects
    /\ before.activities \subseteq activities
    /\ Cardinality(projects \ before.projects) = 1
    /\ \A p \in projects \ before.projects : p.id = newProjectId
    /\ Cardinality(activities \ before.activities) = Len(submitted.activities)
    /\ \A a \in activities \ before.activities : a.project_id = newProjectId

\* C2 witness: a submission with an activity row reported success, in a
\* store that already held a project.
C2_Witness ==
  /\ ReportedSuccess
  /\ Len(submitted.activities) = 1
  /\ before.projects # {}
  /\ Cardinality(projects) = 2
  /\ Cardinality(activities) = 1

(***************************************************************************)
(* The Files page (src/unnamed/part_005).                                  *)
(* An object path of the bucket is [prefix, project, stamp, name]:         *)
(*   `${projectId}/${Date.now()}_${name}`   has prefix "" and stamp <<t>>  *)
(*   `project-files/${projectId}/${name}`   has prefix "project-files" and *)
(*                                          no stamp                       *)
(* Two paths are the same object exactly when all four parts agree.        *)
(* The local list files is kept as a set: its order (uploaded_at,          *)
(* descending) plays no part in upload or delete.  fetchFiles reads the    *)
(* table when it returns, so calls in flight together load the same rows   *)
(* and one flag stands for all of them.                                    *)
(***************************************************************************)
\* useParams(): the project the page is opened for
ProjectIdParam == 1

FileNames == { <<"a">>, <<"b">> }

\* line 75: `${projectId}/${Date.now()}_${selectedFile.name}`
UploadPath(projectId, now, name) ==
  [prefix |-> "", project |-> projectId, stamp |-> <<now>>, name |-> name]

\* line 231: `project-files/${projectId}/${file.name}`
DeletePath(projectId, name) ==
  [prefix |-> "project-files", project |-> projectId, stamp |-> <<>>, name |-> name]

\* getPublicUrl(filePath)
PublicUrl(path) == [base |-> "/storage/v1/object/public/project-files/", path |-> path]

FileRow(id, name, url, projectId, userId) ==
  [id |-> id, name |-> name, url |-> url, project_id |-> projectId, user_id |-> userId]

\* storage.remove(paths): objects that are not there are passed over
RemoveObjects(objects, paths) == objects \ paths

\* a cleanup that removes nothing
CleanupPathsNone(u) == {}

\* line 110: remove([filePath])
CleanupPaths(u) == {u.path}

\* a delete that treats a storage error like a table error
StorageErrorIsThrownAlways == TRUE

\* lines 154-157: storageError is logged, not thrown
StorageErrorIsThrown == FALSE

\* the Date.now() of a later call is later or the same
Tick ==
  /\ clock < MaxClock
  /\ clock' = clock + 1
  /\ UNCHANGED <<blobs, fileRows, nextFileId, files, fetching, selectedFile, uploading,
                 up, del, toast>>

HandleFileSelect ==
  /\ \E name \in FileNames \cup {NoName} : selectedFile' = name
  /\ UNCHANGED <<blobs, fileRows, nextFileId, clock, files, fetching, uploading, up, del, toast>>

\* fetchFiles returned
FetchFilesReturns ==
  /\ fetching
  /\ fetching' = FALSE
  /\ \E ok \in BOOLEAN :
       IF ok
         THEN /\ files' = {r \in fileRows : r.project_id = ProjectIdParam}
              /\ UNCHANGED toast
         ELSE /\ toast' = Toast("Error", "Failed to load files.", 0)
              /\ UNCHANGED files
  /\ UNCHANGED <<blobs, fileRows, nextFileId, clock, selectedFile, uploading, up, del>>

\* handleFileUpload up to the await of storage.upload; the button is disabled
\* without a selected file and while uploading
HandleFileUpload ==
  /\ selectedFile # NoName
  /\ ~uploading
  /\ nextFileId <= MaxFileId
  /\ IF authUser = NoUser
       THEN /\ toast' = Toast("Error", "No file selected or project ID missing.", 0)
            /\ UNCHANGED <<uploading, up>>
       ELSE /\ uploading' = TRUE
            /\ up' = [UpIdle EXCEPT !.pc = "upload", !.name = selectedFile,
                        !.path = UploadPath(ProjectIdParam, clock, selectedFile)]
            /\ UNCHANGED toast
  /\ UNCHANGED <<blobs, fileRows, nextFileId, clock, files, fetching, selectedFile, del>>

\* the catch and finally blocks of handleFileUpload
UploadFails(step, cleaned) ==
  /\ up' = [up EXCEPT !.pc = "done", !.failed = step, !.cleanup = cleaned,
              !.shown = Toast("Error uploading file", step, 0)]
  /\ toast' = Toast("Error uploading file", step, 0)
  /\ uploading' = FALSE

\* storage.upload(filePath, selectedFile) returned; an object that is already
\* there is not overwritten
UploadReturns ==
  /\ up.pc = "upload"
  /\ \E ok \in BOOLEAN :
       IF ok /\ up.path \notin blobs
         THEN /\ blobs' = blobs \cup {up.path}
              /\ up' = [up EXCEPT !.pc = "insert"]
              /\ UNCHANGED <<toast, uploading>>
         ELSE /\ UploadFails("upload", "none")
              /\ UNCHANGED blobs
  /\ UNCHANGED <<fileRows, nextFileId, clock, files, fetching, selectedFile, del>>

\* from('files').insert(...).select().single() returned
FileInsertReturns ==
  /\ up.pc = "insert"
  /\ \E ok \in BOOLEAN :
       IF ok
         THEN /\ fileRows' = fileRows \cup
                   {FileRow(nextFileId, up.name, PublicUrl(up.path), ProjectIdParam, authUser)}
              /\ nextFileId' = nextFileId + 1
              /\ up' = [up EXCEPT !.pc = "done",
                          !.shown = Toast("Success", "File uploaded successfully.", 0)]
              /\ toast' = Toast("Success", "File uploaded successfully.", 0)
              /\ selectedFile' = NoName
              /\ fetching' = TRUE
              /\ uploading' = FALSE
         ELSE /\ up' = [up EXCEPT !.pc = "remove"]
              /\ UNCHANGED <<fileRows, nextFileId, toast, selectedFile, fetching, uploading>>
  /\ UNCHANGED <<blobs, clock, files, del>>

\* the compensating storage.remove([filePath]) returned; dbError is thrown
CleanupReturns ==
  /\ up.pc = "remove"
  /\ \E ok \in BOOLEAN :
       IF ok
         THEN /\ blobs' = RemoveObjects(blobs, CleanupPaths(up))
              /\ UploadFails(Thrown("insert", "removed"), "removed")
         ELSE /\ UNCHANGED blobs
              /\ UploadFails(Thrown("insert", "failed"), "failed")
  /\ UNCHANGED <<fileRows, nextFileId, clock, files, fetching, selectedFile, del>>

\* the Delete button of a listed file, and handleDeleteFile up to the await
\* of the table delete; window.confirm may be answered with no
HandleDeleteFile ==
  /\ del.pc \in {"idle", "done"}
  /\ \E file \in files, confirmed \in BOOLEAN :
       IF authUser = NoUser
         THEN /\ toast' = Toast("Error", "User not authenticated or project ID missing.", 0)
              /\ UNCHANGED del
         ELSE /\ IF confirmed
                   THEN del' = [DelIdle EXCEPT !.pc = "delete", !.row = file,
                                  !.path = DeletePath(ProjectIdParam, file.name)]
                   ELSE UNCHANGED del
              /\ UNCHANGED toast
  /\ UNCHANGED <<blobs, fileRows, nextFileId, clock, files, fetching, selectedFile,
                 uploading, up>>

\* the catch block of handleDeleteFile
DeleteFails(step, blobResult) ==
  /\ del' = [del EXCEPT !.pc = "done", !.failed = step, !.blob = blobResult,
               !.shown = Toast("Error deleting file", step, 0)]
  /\ toast' = Toast("Error deleting file", step, 0)
  /\ UNCHANGED fetching

\* from('files').delete().eq('id', fileId) returned
FileDeleteReturns ==
  /\ del.pc = "delete"
  /\ \E ok \in BOOLEAN :
       IF ok
         THEN /\ fileRows' = {r \in fileRows : r.id # del.row.id}
              /\ del' = [del EXCEPT !.pc = "removeBlob"]
              /\ UNCHANGED <<toast, fetching>>
         ELSE /\ DeleteFails("table", "none")
              /\ UNCHANGED fileRows
  /\ UNCHANGED <<blobs, nextFileId, clock, files, selectedFile, uploading, up>>

\* storage.remove([filePathInStorage]) returned
BlobRemoveReturns ==
  /\ del.pc = "removeBlob"
  /\ \E ok \in BOOLEAN :
       /\ blobs' = IF ok THEN RemoveObjects(blobs, {del.path}) ELSE blobs
       /\ IF ~ok /\ StorageErrorIsThrown
            THEN DeleteFails("storage", "failed")
            ELSE /\ del' = [del EXCEPT !.pc = "done",
                              !.blob = IF ok THEN "removed" ELSE "failed",
                              !.shown = Toast("Success", "File deleted successfully.", 0)]
                 /\ toast' = Toast("Success", "File deleted successfully.", 0)
                 /\ fetching' = TRUE
  /\ UNCHANGED <<fileRows, nextFileId, clock, files, selectedFile, uploading, up>>

(***************************************************************************)
(* SpecFiles: the Files page of one project against storage and the files  *)
(* table.                                                                  *)
(***************************************************************************)
InitFiles ==
  /\ build = "pages"
  /\ MoreInit
  /\ FormInit /\ SubmitInit
  /\ projects = {ProjectRow(ProjectIdParam, <<"P">>, 1)}
  /\ activities = {}
  /\ nextRowId = ProjectIdParam + 1
  /\ blobs = {}
  /\ fileRows = {}
  /\ nextFileId = 1
  /\ clock = 0
  /\ files = {}
  /\ fetching = TRUE       \* the fetchFiles of the mount effect
  /\ selectedFile = NoName
  /\ uploading = FALSE
  /\ up = UpIdle
  /\ del = DelIdle
  /\ authLoading = FALSE
  /\ authUser = 1
  /\ signingIn = FALSE
  /\ signingUp = FALSE
  /\ sessionChecked = TRUE
  /\ requested = <<"projects", "1", "files">>
  /\ location = <<"projects", "1", "files">>
  /\ screen = "Files"

notFiles == <<build, formName, fields, csvFile, storeVars, submitVars, routeVars, moreVars>>

ClockTicks == Tick /\ UNCHANGED notFiles
SelectFile == HandleFileSelect /\ UNCHANGED notFiles
FetchDone == FetchFilesReturns /\ UNCHANGED notFiles
StartUpload == HandleFileUpload /\ UNCHANGED notFiles
UploadDone == UploadReturns /\ UNCHANGED notFiles
FileInsertDone == FileInsertReturns /\ UNCHANGED notFiles
CleanupDone == CleanupReturns /\ UNCHANGED notFiles
StartDelete == HandleDeleteFile /\ UNCHANGED notFiles
FileDeleteDone == FileDeleteReturns /\ UNCHANGED notFiles
BlobRemoveDone == BlobRemoveReturns /\ UNCHANGED notFiles

NextFiles ==
  \/ ClockTicks
  \/ SelectFile
  \/ FetchDone
  \/ StartUpload
  \/ UploadDone
  \/ FileInsertDone
  \/ CleanupDone
  \/ StartDelete
  \/ FileDeleteDone
  \/ BlobRemoveDone

SpecFiles == InitFiles /\ [][NextFiles]_vars

(***************************************************************************)
(* Properties of the Files page.                                           *)
(***************************************************************************)
RowOfUpload == {r \in fileRows : r.url = PublicUrl(up.path)}

MetadataInsertFailed == up.pc = "done" /\ up.failed = "insert"

\* C5 as stated: when the upload succeeded and the metadata insert failed,
\* the uploaded object has been removed from storage and the upload has left
\* neither a File row nor an object.
C5_FailedInsertLeavesNothing ==
  MetadataInsertFailed => (up.path \notin blobs /\ RowOfUpload = {})

\* C5 restricted: when the upload succeeded, the metadata insert failed and
\* the compensating remove call succeeded, the upload has left neither a
\* File row nor an object.
C5_CleanedUploadLeavesNothing ==
  (MetadataInsertFailed /\ up.cleanup = "removed")
    => (up.path \notin blobs /\ RowOfUpload = {})

C5_Witness ==
  /\ MetadataInsertFailed
  /\ up.cleanup = "removed"
  /\ up.path \notin blobs
  /\ up.path = UploadPath(ProjectIdParam, 1, <<"a">>)

DeleteWithoutFailure == del.pc = "done" /\ del.failed = "none" /\ del.blob = "removed"

\* C6: when no backend call of a confirmed delete fails, the File row and
\* the object its upload stored are both gone.
C6_DeleteReversesUpload ==
  DeleteWithoutFailure
    => /\ \A r \in fileRows : r.id # del.row.id
       /\ del.row.url.path \notin blobs

BlobDeleteFailed == del.pc = "done" /\ del.blob = "failed"

\* C7: when the File row was deleted and the removal of the object failed,
\* the row stays deleted and the delete shows its success notification, not
\* an error.
C7_BlobFailureIsTolerated ==
  BlobDeleteFailed
    => /\ \A r \in fileRows : r.id # del.row.id
       /\ del.shown = Toast("Success", "File deleted successfully.", 0)

C7_Witness ==
  /\ BlobDeleteFailed
  /\ del.row.id = 1
  /\ fileRows = {}
  /\ del.shown.title = "Success"

(***************************************************************************)
(* The router and its guards (src/src/App.tsx for the "pages" build,       *)
(* src/unnamed/part_000 for the "unnamed" build) over the auth context     *)
(* (src/unnamed/part_001).  A path is the sequence of its segments; "/" is *)
(* the empty sequence.                                                     *)
(***************************************************************************)
Route(path, element, guarded) == [path |-> path, element |-> element, guarded |-> guarded]

Routes(b) ==
  IF b = "pages"
    THEN { Route(<<"login">>, "Login", FALSE),
           Route(<<"signup">>, "Signup", FALSE),
           Route(<<"dashboard">>, "Dashboard", TRUE),
           Route(<<"projects", "new">>, "NewProject", TRUE),
           Route(<<"projects">>, "ProjectList", TRUE),
           Route(<<"projects", ":id">>, "ProjectDetail", TRUE),
           Route(<<"projects", ":id", "edit">>, "EditProject", TRUE),
           Route(<<"admin", "users">>, "UserManagement", TRUE),
           Route(<<"notifications">>, "Notifications", TRUE),
           Route(<<"projects", ":id", "files">>, "Files", TRUE),
           Route(<<"reports">>, "Reports", TRUE),
           Route(<<"profile">>, "Profile", TRUE),
           Route(<<"admin", "settings">>, "Settings", TRUE),
           Route(<<>>, "NavigateDashboard", FALSE) }
    ELSE { Route(<<"auth">>, "Auth", FALSE),
           Route(<<"dashboard">>, "Dashboard", TRUE),
           Route(<<>>, "AuthRedirect", FALSE) }

\* the paths a visitor asks for: every route of either build, with project 1
\* for :id
Paths ==
  { <<>>, <<"login">>, <<"signup">>, <<"auth">>, <<"dashboard">>,
    <<"projects">>, <<"projects", "new">>, <<"projects", "1">>,
    <<"projects", "1", "edit">>, <<"projects", "1", "files">>,
    <<"admin", "users">>, <<"admin", "settings">>, <<"notifications">>,
    <<"reports">>, <<"profile">> }

\* react-router: a :param segment matches any segment, a static one itself
PathMatches(pattern, path) ==
  /\ Len(pattern) = Len(path)
  /\ \A i \in 1..Len(pattern) : pattern[i] = ":id" \/ pattern[i] = path[i]

Statics(pattern) == Cardinality({i \in 1..Len(pattern) : pattern[i] # ":id"})

Matching(b, path) == {r \in Routes(b) : PathMatches(r.path, path)}

\* react-router ranks a static segment above a :param
BestMatch(b, path) ==
  CHOOSE r \in Matching(b, path) :
    \A q \in Matching(b, path) : Statics(r.path) >= Statics(q.path)

Show(content) == [redirect |-> FALSE, to |-> <<>>, show |-> content]
Redirect(path) == [redirect |-> TRUE, to |-> path, show |-> "Nothing"]

LoginPath(b) == IF b = "pages" THEN <<"login">> ELSE <<"auth">>
LoginScreen(b) == IF b = "pages" THEN "Login" ELSE "Auth"
DashboardPath == <<"dashboard">>

\* a guard that lets every visitor through
GuardRedirectsNever(user) == FALSE

\* if (!user)
GuardRedirects(user) == user = NoUser

\* the approved column of the user's row in public.users
Approved(rows, user) == user \in DOMAIN rows /\ rows[user].approved

\* a gate that holds back a user who is not approved
ApprovalIsEnforcedAlways == TRUE

\* App.tsx lines 36-42 and Login.tsx lines 21-23: the approval check is
\* commented out, "authenticated means approved for routing purposes"
ApprovalIsEnforced == FALSE

\* AuthenticatedLayout / ProtectedRoute.  App.tsx mounts <ProtectedRoute />
\* as a layout element without children and without an Outlet, so what it
\* returns for a signed-in visitor is undefined: nothing is rendered.
ProtectedOutcome(b, element, loading, user) ==
  IF loading THEN Show("Loading")
  ELSE IF GuardRedirects(user) THEN Redirect(LoginPath(b))
  ELSE IF ApprovalIsEnforced /\ ~Approved(userRows, user) THEN Show("PendingApproval")
  ELSE Show(IF b = "pages" THEN "Nothing" ELSE element)

\* AuthRedirect of part_000
AuthRedirectOutcome(loading, user) ==
  IF loading THEN Show("Loading")
  ELSE IF user # NoUser THEN Redirect(DashboardPath) ELSE Redirect(<<"auth">>)

ElementOutcome(b, route, loading, user) ==
  IF route.guarded THEN ProtectedOutcome(b, route.element, loading, user)
  ELSE IF route.element = "NavigateDashboard" THEN Redirect(DashboardPath)
  ELSE IF route.element = "AuthRedirect" THEN AuthRedirectOutcome(loading, user)
  ELSE Show(route.element)

\* rendering a location: <Navigate> elements are followed until an element
\* renders content; a path no route matches renders nothing
RECURSIVE Resolve(_, _, _, _)
Resolve(b, path, loading, user) ==
  IF Matching(b, path) = {}
    THEN [location |-> path, screen |-> "Nothing"]
    ELSE LET outcome == ElementOutcome(b, BestMatch(b, path), loading, user)
         IN  IF outcome.redirect
               THEN Resolve(b, outcome.to, loading, user)
               ELSE [location |-> path, screen |-> outcome.show]

Render(path, loading, user) ==
  LET r == Resolve(build, path, loading, user)
  IN  /\ location' = r.location
      /\ screen' = r.screen

\* the address bar, a link or navigate(path)
NavigateTo ==
  \E path \in Paths :
    /\ requested' = path
    /\ Render(path, authLoading, authUser)
    /\ UNCHANGED <<authLoading, authUser, signingIn, signingUp, sessionChecked, toast>>

\* part_001 lines 22-35: the listener and the initial getSession both store
\* the session's user and end loading
OnAuthStateChange ==
  \E sessionUser \in {NoUser, 1} :
    /\ authUser' = sessionUser
    /\ authLoading' = FALSE
    /\ sessionChecked' = TRUE
    /\ Render(location, FALSE, sessionUser)
    /\ UNCHANGED <<signingIn, signingUp, requested, toast>>

\* Login.handleLogin up to the await inside AuthContext.signIn; the submit
\* button is disabled while the context is loading (Login.tsx line 78)
HandleLogin ==
  /\ screen = "Login"
  /\ ~authLoading
  /\ ~signingIn
  /\ signingIn' = TRUE
  /\ authLoading' = TRUE
  /\ Render(location, TRUE, authUser)
  /\ UNCHANGED <<authUser, signingUp, sessionChecked, requested, toast>>

\* signInWithPassword returned; handleLogin goes on
SignInReturns ==
  /\ signingIn
  /\ signingIn' = FALSE
  /\ authLoading' = FALSE
  /\ UNCHANGED signingUp
  /\ \E ok \in BOOLEAN :
       IF ok
         THEN /\ authUser' = 1
              /\ sessionChecked' = TRUE
              /\ toast' = Toast("Login successful", "Welcome back!", 0)
              /\ requested' = DashboardPath
              /\ Render(DashboardPath, FALSE, 1)
         ELSE /\ toast' = Toast("Login failed", "", 0)
              /\ Render(location, FALSE, authUser)
              /\ UNCHANGED <<authUser, sessionChecked, requested>>

\* Signup.handleSignup up to the await inside AuthContext.signUp; the submit
\* button is disabled by the page's own isSigningUp flag only
HandleSignup ==
  /\ screen = "Signup"
  /\ ~signingUp
  /\ signingUp' = TRUE
  /\ authLoading' = TRUE
  /\ Render(location, TRUE, authUser)
  /\ UNCHANGED <<authUser, signingIn, sessionChecked, requested, toast>>

\* supabase.auth.signUp returned: signUp ends loading and throws the error or
\* stores data.user and returns data, an object without a data property, so
\* that handleSignup's authData is undefined and reading authData.user
\* throws; either way the catch shows the failure toast.  A sign-up that
\* opened a session is also announced to the listener.
SignUpReturns ==
  /\ signingUp
  /\ signingUp' = FALSE
  /\ authLoading' = FALSE
  /\ toast' = Toast("Registration failed", "", 0)
  /\ \E ok \in BOOLEAN, opened \in BOOLEAN :
       /\ authUser' = IF ok THEN 1 ELSE authUser
       /\ sessionChecked' = (sessionChecked \/ (ok /\ opened))
       /\ Render(location, FALSE, authUser')
  /\ UNCHANGED <<signingIn, requested>>

\* Auth.handleAuth of part_001: it signs in or up at the backend and shows a
\* toast; the user reaches the context through the listener
HandleAuth ==
  /\ screen = "Auth"
  /\ \E ok \in BOOLEAN :
       IF ok
         THEN /\ authUser' = 1
              /\ authLoading' = FALSE
              /\ sessionChecked' = TRUE
              /\ toast' = Toast("Logged In Successfully", "Welcome back!", 0)
              /\ Render(location, FALSE, 1)
         ELSE /\ toast' = Toast("Authentication Error", "", 0)
              /\ UNCHANGED <<authUser, authLoading, sessionChecked, location, screen>>
  /\ UNCHANGED <<signingIn, signingUp, requested>>

\* Dashboard.handleLogout: supabase.auth.signOut(), then the listener
HandleLogout ==
  /\ screen = "Dashboard"
  /\ \E ok \in BOOLEAN :
       IF ok
         THEN /\ authUser' = NoUser
              /\ authLoading' = FALSE
              /\ sessionChecked' = TRUE
              /\ Render(location, FALSE, NoUser)
         ELSE UNCHANGED <<authUser, authLoading, sessionChecked, location, screen>>
  /\ UNCHANGED <<signingIn, signingUp, requested, toast>>

(***************************************************************************)
(* SpecRoute: a visitor opens the app at any path, moves between paths and *)
(* signs in and out.                                                       *)
(***************************************************************************)
InitRoute ==
  /\ build \in Builds
  /\ NotifInit
  /\ ReportsInit
  /\ EditInit /\ SessionInit
  /\ userRows \in {<<[role |-> "pending", approved |-> a],
                     [role |-> "employee", approved |-> TRUE]>> : a \in BOOLEAN}
  /\ users = <<>>
  /\ usersFetching = FALSE
  /\ userCall = [c \in UserCallIds |-> NoUserCall]
  /\ FormInit /\ StoreInit /\ SubmitInit /\ FilesInit
  /\ authLoading = TRUE
  /\ authUser = NoUser
  /\ signingIn = FALSE
  /\ signingUp = FALSE
  /\ sessionChecked = FALSE
  /\ requested \in Paths
  /\ location = Resolve(build, requested, TRUE, NoUser).location
  /\ screen = Resolve(build, requested, TRUE, NoUser).screen

notRoute == <<build, formName, fields, csvFile, storeVars, submitVars, filesVars, moreVars>>

Visit == NavigateTo /\ UNCHANGED notRoute
SessionChanges == OnAuthStateChange /\ UNCHANGED notRoute
LoginSubmit == HandleLogin /\ UNCHANGED notRoute
SignInDone == SignInReturns /\ UNCHANGED notRoute
SignupSubmit == HandleSignup /\ UNCHANGED notRoute
SignUpDone == SignUpReturns /\ UNCHANGED notRoute
AuthSubmit == HandleAuth /\ UNCHANGED notRoute
Logout == HandleLogout /\ UNCHANGED notRoute

NextRoute ==
  \/ Visit
  \/ SessionChanges
  \/ LoginSubmit
  \/ SignInDone
  \/ SignupSubmit
  \/ SignUpDone
  \/ AuthSubmit
  \/ Logout

SpecRoute == InitRoute /\ [][NextRoute]_vars

(***************************************************************************)
(* Properties of the router.                                               *)
(***************************************************************************)
Unauthenticated == ~authLoading /\ authUser = NoUser
Authenticated == ~authLoading /\ authUser # NoUser

IsProtected(b, path) == Matching(b, path) # {} /\ BestMatch(b, path).guarded

ProtectedScreens(b) == {r.element : r \in {q \in Routes(b) : q.guarded}}

\* C3: whenever loading has finished and there is no user, no protected
\* view's content is on screen, and a visitor who asked for a protected view
\* is on the login view.
C3_UnauthenticatedEndsOnLogin ==
  Unauthenticated
    => /\ screen \notin ProtectedScreens(build)
       /\ IsProtected(build, requested)
            => (location = LoginPath(build) /\ screen = LoginScreen(build))

C3_Witness ==
  /\ build = "pages"
  /\ Unauthenticated
  /\ requested = <<"projects", "1", "files">>
  /\ location = <<"login">>
  /\ screen = "Login"

AuthViews(b) == IF b = "pages" THEN {<<"login">>, <<"signup">>} ELSE {<<"auth">>}

\* C4: whenever there is a signed-in user and the visitor asked for the
\* login or signup view, the router is on the dashboard and not showing the
\* login or signup form.
C4_AuthenticatedLeavesLogin ==
  (Authenticated /\ requested \in AuthViews(build))
    => (location = DashboardPath /\ screen \notin {"Login", "Signup", "Auth"})

(***************************************************************************)
(* The CSV files the import is checked on.                                 *)
(***************************************************************************)
HeaderQty == <<"Activity Name", "Qty", "Unit", "Rate">>
HeaderQuantity == <<"Activity Name", "Quantity", "Unit", "Rate">>
HeaderShort == <<"Unit", "Activity Name">>

Headers == {HeaderQty, HeaderQuantity, HeaderShort}

\* the lines a file with this header can hold: complete lines with a name or
\* without one, with numeric, empty and non-numeric cells; a line cut after
\* its first cell; the empty line
LinesOf(header) ==
  IF Len(header) = 4
    THEN { << <<"a">>, <<"2">>, <<"m">>, <<"3">> >>,
           << <<"b">>, <<"2", "a">>, <<"m">>, <<"3">> >>,
           << <<"a">>, <<"a">>, <<"m">>, <<>> >>,
           << <<"b">>, <<>>, <<"m">>, <<"3", "a">> >>,
           << <<>>, <<"2">>, <<"m">>, <<"3">> >>,
           << <<"a">> >>,
           << <<>> >> }
    ELSE { << <<"m">>, <<"a">> >>,
           << <<"m">>, <<>> >>,
           << <<"m">> >>,
           << <<>> >> }

CsvFiles ==
  UNION {{[header |-> h, lines |-> ls] :
            ls \in UNION {[1..n -> LinesOf(h)] : n \in 0..MaxCsvRows}} : h \in Headers}

(***************************************************************************)
(* SpecCsv: the form with its row buttons and the CSV import.              *)
(***************************************************************************)
InitCsv ==
  /\ build \in Builds
  /\ MoreInit
  /\ FormInit /\ StoreInit /\ SubmitInit /\ FilesInit /\ RouteInit

CsvUpload ==
  /\ \E file \in CsvFiles : HandleCsvUpload(file)
  /\ UNCHANGED <<build, storeVars, submitVars, filesVars, routeVars, moreVars>>

AddRow ==
  /\ AddActivity
  /\ UNCHANGED <<build, storeVars, submitVars, filesVars, routeVars, moreVars>>

RemoveRow ==
  /\ RemoveActivity
  /\ UNCHANGED <<build, storeVars, submitVars, filesVars, routeVars, moreVars>>

NextCsv == CsvUpload \/ AddRow \/ RemoveRow

SpecCsv == InitCsv /\ [][NextCsv]_vars

(***************************************************************************)
(* Properties of the CSV import.                                           *)
(***************************************************************************)
\* a step in which the CSV handler ran on a file
ImportStep == csvFile = NoFile /\ csvFile' # NoFile

\* the position of a column in the header, 0 without one
Column(header, name) ==
  IF \E i \in 1..Len(header) : header[i] = name
    THEN CHOOSE i \in 1..Len(header) : header[i] = name
    ELSE 0

\* the cell of a line in a column, empty when the line has no such cell
Cell(line, col) == IF col >= 1 /\ col <= Len(line) THEN line[col] ELSE <<>>

\* the data lines of a file that carry a non-empty activity name, in file order
NamedLines(file) ==
  SelectSeq(file.lines, LAMBDA l : Cell(l, Column(file.header, "Activity Name")) # <<>>)

Names(fs) == [i \in 1..Len(fs) |-> fs[i].name]

NamesOfLines(file) ==
  [i \in 1..Len(NamedLines(file)) |->
     Cell(NamedLines(file)[i], Column(file.header, "Activity Name"))]

\* the numeric value of a cell: its value when it is a number, 0 when it is
\* empty or not a number
IsNumber(cell) == cell # <<>> /\ \A i \in 1..Len(cell) : cell[i] \in Digits

NumericValue(cell) == IF IsNumber(cell) THEN Num(DecimalValue(cell)) ELSE Num(0)

\* C8 as stated: after the CSV handler ran on any file with a header row, the
\* activity list holds exactly the data rows with a non-empty Activity Name,
\* in file order.
C8_AnyCsvKeepsNamedRows ==
  [][ImportStep => Names(fields') = NamesOfLines(csvFile')]_vars

\* C8 amended: after an import that was not aborted by a parse error
\* (the CSV Imported notification is shown), the activity list holds exactly
\* the data rows with a non-empty Activity Name, in file order, and none
\* with an empty name.
C8_ImportKeepsNamedRows ==
  [][ImportStep /\ toast'.title = "CSV Imported"
       => /\ Names(fields') = NamesOfLines(csvFile')
          /\ \A i \in 1..Len(fields') : fields'[i].name # <<>>]_vars

\* C8 witness: an import went through on a file that has a line without a
\* name between lines with one, and both named lines were kept.
C8_Witness ==
  /\ toast.title = "CSV Imported"
  /\ Len(csvFile.lines) = 2
  /\ \E i \in 1..Len(csvFile.lines) :
       Len(csvFile.lines[i]) > 1 /\ Cell(csvFile.lines[i], Column(csvFile.header, "Activity Name")) = <<>>
  /\ Len(fields) = 1
  /\ toast.n = 1

\* C9 as stated: for a file with header Activity Name,Qty,Unit,Rate every
\* imported activity has the numeric value of its line's Qty and Rate cells
\* as quantity and rate, 0 for a cell that is empty or not a number.
C9_QtyRateAreCellValues ==
  [][ImportStep /\ toast'.title = "CSV Imported" /\ csvFile'.header = HeaderQty
       /\ Len(fields') = Len(NamedLines(csvFile'))
       => \A i \in 1..Len(fields') :
            /\ fields'[i].quantity = NumericValue(Cell(NamedLines(csvFile')[i], 2))
            /\ fields'[i].rate = NumericValue(Cell(NamedLines(csvFile')[i], 4))]_vars

\* C10: a CSV import that went through replaces the activity list: the list
\* is the imported rows (as many as the notification counts, one per named
\* line of the file) and no row that was in the form before is still there.
C10_ImportReplacesList ==
  [][ImportStep /\ toast'.title = "CSV Imported"
       => /\ Len(fields') = toast'.n
          /\ Names(fields') = NamesOfLines(csvFile')
          /\ Values(fields') = ParsedActivities(build, csvFile')
          /\ Ids(fields') \cap Ids(fields) = {}]_vars

\* C10 witness: an import of two rows went through in a form that held a
\* hand-made row (key 1), and that row is gone.
C10_Witness ==
  /\ toast.title = "CSV Imported"
  /\ Len(fields) = 2
  /\ Ids(fields) = {2, 3}
  /\ \A i \in 1..Len(fields) : fields[i].name # <<>>

\* C11 as stated: when parsing the chosen file reports an error, the handler
\* leaves the activity list as it was and shows the failure notification.
C11_ParseErrorAbortsImport ==
  [][ImportStep /\ PapaErrors(csvFile') # {}
       => /\ fields' = fields
          /\ toast'.title = "CSV Parsing Error"]_vars

(***************************************************************************)
(* The budget summary of the create-project form (src/unnamed/part_003     *)
(* lines 67-75 and 371).  The form of src/src/pages/NewProject.tsx shows   *)
(* no total.                                                               *)
(***************************************************************************)
\* the number a form value takes part in a product as: '' is 0
ToNumber(x) == IF x.t = "empty" THEN Num(0) ELSE x

\* a * b
Times(a, b) ==
  IF ToNumber(a).t = "NaN" \/ ToNumber(b).t = "NaN" THEN NaN
  ELSE Num(ToNumber(a).v * ToNumber(b).v)

\* a + b for numbers
Plus(a, b) == IF a.t = "NaN" \/ b.t = "NaN" THEN NaN ELSE Num(a.v + b.v)

RECURSIVE TotalBudget(_)
\* activities.reduce((sum, activity) => sum + (qty * rate), 0) with
\* qty = activity.quantity ?? 0 and rate = activity.rate ?? 0; no row of the
\* form holds null or undefined in these fields
TotalBudget(acts) ==
  IF acts = <<>> THEN Num(0)
  ELSE Plus(TotalBudget(SubSeq(acts, 1, Len(acts) - 1)),
            Times(acts[Len(acts)].quantity, acts[Len(acts)].rate))

(***************************************************************************)
(* SpecBudget: the form under add-row, remove-row, row-edit and CSV        *)
(* import.                                                                 *)
(***************************************************************************)
NextBudget == CsvUpload \/ AddRow \/ RemoveRow \/ TypeActivity

SpecBudget == InitCsv /\ [][NextBudget]_vars

\* the amount a quantity or rate counts as: its value when it is a number,
\* 0 otherwise
Amount(x) == IF x.t = "num" THEN x.v ELSE 0

RECURSIVE SumOfProducts(_)
SumOfProducts(acts) ==
  IF acts = <<>> THEN 0
  ELSE SumOfProducts(Tail(acts)) + Amount(Head(acts).quantity) * Amount(Head(acts).rate)

\* C12 as stated: in every state of the form that shows a total, the total
\* shown is the sum over the current rows of quantity x rate, a quantity or
\* rate that is not a number counting as 0.
C12_TotalIsSumOfRows ==
  build = "unnamed" => TotalBudget(Values(fields)) = Num(SumOfProducts(Values(fields)))

(***************************************************************************)
(* The Notifications page (src/src/pages/EditProject.tsx lines 387-540).   *)
(* The table holds notifications 1..MaxNotifs of the signed-in user; a     *)
(* later id is a later created_at.  A handler reads the notifications      *)
(* state through its closure: a call in flight carries the list of the     *)
(* render it was started from.                                             *)
(***************************************************************************)
MaxNotifs == 2      \* notifications of the user
MaxMarks == 2       \* markAsRead / markAllAsRead calls in flight together

\* the notifications that carry a link
Linked == {1}

LocalNotification(id, read) == [id |-> id, read |-> read]

\* select('*').eq('user_id', userId).order('created_at', {ascending: false})
FetchedList(rows) ==
  [i \in 1..Len(rows) |-> LocalNotification(Len(rows) + 1 - i, rows[Len(rows) + 1 - i])]

\* notifications.map(n => n.id === notificationId ? { ...n, read: true } : n)
MapRead(list, id) ==
  [i \in 1..Len(list) |->
     IF list[i].id = id THEN LocalNotification(list[i].id, TRUE) ELSE list[i]]

\* notifications.map(n => ({ ...n, read: true }))
MapAllRead(list) == [i \in 1..Len(list) |-> LocalNotification(list[i].id, TRUE)]

MarkCall(kind, id, closure) == [kind |-> kind, id |-> id, closure |-> closure]

WithoutCall(calls, i) == SubSeq(calls, 1, i - 1) \o SubSeq(calls, i + 1, Len(calls))

\* fetchNotifications returned
FetchNotificationsReturns ==
  /\ notifFetching
  /\ notifFetching' = FALSE
  /\ \E ok \in BOOLEAN :
       IF ok
         THEN notifications' = FetchedList(notifRows) /\ UNCHANGED toast
         ELSE toast' = Toast("Error", "Failed to load notifications.", 0)
              /\ UNCHANGED notifications
  /\ UNCHANGED <<notifRows, marks>>

\* the Mark as Read button of a notification the list shows as unread;
\* markAsRead up to its await
MarkAsRead ==
  /\ ~notifFetching
  /\ Len(marks) < MaxMarks
  /\ \E i \in 1..Len(notifications) :
       /\ ~notifications[i].read
       /\ marks' = Append(marks, MarkCall("one", notifications[i].id, notifications))
  /\ UNCHANGED <<notifRows, notifications, notifFetching, toast>>

\* update({read: true}).eq('id', notificationId) returned
MarkAsReadReturns(i) ==
  /\ i \in 1..Len(marks)
  /\ marks[i].kind = "one"
  /\ marks' = WithoutCall(marks, i)
  /\ \E ok \in BOOLEAN :
       IF ok
         THEN /\ notifRows' = [notifRows EXCEPT ![marks[i].id] = TRUE]
              /\ notifications' = MapRead(marks[i].closure, marks[i].id)
              /\ UNCHANGED toast
         ELSE /\ toast' = Toast("Error", "Failed to mark notification as read.", 0)
              /\ UNCHANGED <<notifRows, notifications>>
  /\ UNCHANGED notifFetching

\* the Mark All as Read button, disabled when the list shows every
\* notification as read; markAllAsRead up to its await
MarkAllAsRead ==
  /\ ~notifFetching
  /\ Len(marks) < MaxMarks
  /\ authUser # NoUser
  /\ \E i \in 1..Len(notifications) : ~notifications[i].read
  /\ marks' = Append(marks, MarkCall("all", 0, notifications))
  /\ UNCHANGED <<notifRows, notifications, notifFetching, toast>>

\* update({read: true}).eq('user_id', user.id).eq('read', false) returned
MarkAllAsReadReturns(i) ==
  /\ i \in 1..Len(marks)
  /\ marks[i].kind = "all"
  /\ marks' = WithoutCall(marks, i)
  /\ \E ok \in BOOLEAN :
       IF ok
         THEN /\ notifRows' = [id \in 1..Len(notifRows) |-> TRUE]
              /\ notifications' = MapAllRead(marks[i].closure)
              /\ toast' = Toast("Success", "All notifications marked as read.", 0)
         ELSE /\ toast' = Toast("Error", "Failed to mark all notifications as read.", 0)
              /\ UNCHANGED <<notifRows, notifications>>
  /\ UNCHANGED notifFetching

\* the View Details link: markAsRead(notification.id), then
\* window.location.href = link unloads the page; the update request may or
\* may not have reached the backend.  The page is mounted afresh afterwards.
ViewDetails ==
  /\ ~notifFetching
  /\ \E i \in 1..Len(notifications), sent \in BOOLEAN :
       /\ notifications[i].id \in Linked
       /\ notifRows' = IF sent THEN [notifRows EXCEPT ![notifications[i].id] = TRUE]
                       ELSE notifRows
  /\ notifications' = <<>>
  /\ marks' = <<>>
  /\ notifFetching' = TRUE
  /\ UNCHANGED toast

(***************************************************************************)
(* SpecNotif: the Notifications page of a signed-in user.                  *)
(***************************************************************************)
InitNotif ==
  /\ build = "pages"
  /\ UsersInit
  /\ ReportsInit
  /\ EditInit /\ SessionInit
  /\ FormInit /\ StoreInit /\ SubmitInit /\ FilesInit
  /\ authLoading = FALSE
  /\ authUser = 1
  /\ signingIn = FALSE
  /\ signingUp = FALSE
  /\ sessionChecked = TRUE
  /\ requested = <<"notifications">>
  /\ location = <<"notifications">>
  /\ screen = "Notifications"
  /\ notifRows \in [1..MaxNotifs -> BOOLEAN]
  /\ notifications = <<>>
  /\ notifFetching = TRUE      \* the fetch of the mount effect
  /\ marks = <<>>

notNotif == <<build, formName, fields, csvFile, storeVars, submitVars, filesVars, routeVars, userVars,
             reportVars, editVars, sessVars>>

NotificationsLoaded == FetchNotificationsReturns /\ UNCHANGED notNotif
MarkOne == MarkAsRead /\ UNCHANGED notNotif
MarkOneDone == (\E i \in 1..Len(marks) : MarkAsReadReturns(i)) /\ UNCHANGED notNotif
MarkAll == MarkAllAsRead /\ UNCHANGED notNotif
MarkAllDone == (\E i \in 1..Len(marks) : MarkAllAsReadReturns(i)) /\ UNCHANGED notNotif
FollowLink == ViewDetails /\ UNCHANGED notNotif

NextNotif ==
  \/ NotificationsLoaded
  \/ MarkOne
  \/ MarkOneDone
  \/ MarkAll
  \/ MarkAllDone
  \/ FollowLink

SpecNotif == InitNotif /\ [][NextNotif]_vars

(***************************************************************************)
(* Properties of the Notifications page.                                   *)
(***************************************************************************)
\* the notification is read in the table and in the list on screen
IsRead(id) ==
  /\ notifRows[id]
  /\ \E k \in 1..Len(notifications) : notifications[k].id = id /\ notifications[k].read

\* C13 as stated: a markAsRead that completes on a notification that is
\* already read leaves the table and the local list as they were.
C13_MarkAsReadIsIdempotent ==
  [][\A i \in 1..Len(marks) :
       (MarkAsReadReturns(i) /\ IsRead(marks[i].id))
         => (notifRows' = notifRows /\ notifications' = notifications)]_vars

(***************************************************************************)
(* The User Management page (src/src/pages/UserManagement.tsx) over the    *)
(* users table and its row-level policies                                  *)
(* (src/supabase/migrations/create_initial_tables.sql lines 449-479).      *)
(***************************************************************************)
UserIds == {1, 2}

Roles == {"pending", "admin", "manager", "vendor", "employee"}

UserRow(role, approved) == [role |-> role, approved |-> approved]

\* EXISTS (SELECT 1 FROM public.users WHERE id = auth.uid() AND role = 'admin')
IsAdminUser(rows, uid) == uid \in DOMAIN rows /\ rows[uid].role = "admin"

\* the two SELECT policies: one's own record, or every record for an admin
MaySelect(rows, uid, id) == uid = id \/ IsAdminUser(rows, uid)

\* the two UPDATE policies: one's own record, or any record for an admin;
\* neither has a WITH CHECK, so every column may be written
MayUpdate(rows, uid, id) == uid = id \/ IsAdminUser(rows, uid)

\* line 26: const isAdmin = true
IsAdminPlaceholder == TRUE

AppUser(id, row) == [id |-> id, role |-> row.role, approved |-> row.approved]

\* select('*') as the policies let uid see it; later ids first
RECURSIVE VisibleUsers(_, _, _)
VisibleUsers(rows, uid, n) ==
  IF n = 0 THEN <<>>
  ELSE VisibleUsers(rows, uid, n - 1)
         \o (IF MaySelect(rows, uid, Cardinality(UserIds) + 1 - n)
               THEN <<AppUser(Cardinality(UserIds) + 1 - n, rows[Cardinality(UserIds) + 1 - n])>>
               ELSE <<>>)

\* fetchUsers returned
FetchUsersReturns ==
  /\ usersFetching
  /\ usersFetching' = FALSE
  /\ \E ok \in BOOLEAN :
       IF ok
         THEN users' = VisibleUsers(userRows, authUser, Cardinality(UserIds)) /\ UNCHANGED toast
         ELSE toast' = Toast("Error", "Failed to load users.", 0) /\ UNCHANGED users
  /\ UNCHANGED <<userRows, userCall>>

\* the role Select of a listed user; handleRoleChange up to its await.  The
\* handler keeps the users of the render it was made in (closure).
HandleRoleChange(c, roles) ==
  /\ IsAdminPlaceholder
  /\ ~usersFetching
  /\ userCall[c].kind = "none"
  /\ \E i \in 1..Len(users), newRole \in roles :
       /\ newRole # users[i].role
       /\ userCall' = [userCall EXCEPT ![c] =
                         [kind |-> "role", id |-> users[i].id, role |-> newRole,
                          approved |-> FALSE, closure |-> users]]
  /\ UNCHANGED <<userRows, users, usersFetching, toast>>

\* update({role: newRole}).eq('id', userId) returned: the update reaches the
\* rows the policies let the caller update, and it is no error to reach none
RoleChangeReturns(c) ==
  /\ userCall[c].kind = "role"
  /\ userCall' = [userCall EXCEPT ![c] = NoUserCall]
  /\ \E ok \in BOOLEAN :
       IF ok
         THEN /\ userRows' = IF MayUpdate(userRows, authUser, userCall[c].id)
                               THEN [userRows EXCEPT ![userCall[c].id].role = userCall[c].role]
                               ELSE userRows
              /\ users' = [i \in 1..Len(userCall[c].closure) |->
                             IF userCall[c].closure[i].id = userCall[c].id
                               THEN [userCall[c].closure[i] EXCEPT !.role = userCall[c].role]
                               ELSE userCall[c].closure[i]]
              /\ toast' = Toast("Success", "User role updated", 0)
         ELSE /\ toast' = Toast("Error", "Failed to update user role.", 0)
              /\ UNCHANGED <<userRows, users>>
  /\ UNCHANGED usersFetching

\* the Approve / Deny button of a listed user; handleApproveDeny up to its
\* await
HandleApproveDeny(c) ==
  /\ IsAdminPlaceholder
  /\ ~usersFetching
  /\ userCall[c].kind = "none"
  /\ \E i \in 1..Len(users) :
       userCall' = [userCall EXCEPT ![c] =
                      [kind |-> "approve", id |-> users[i].id, role |-> "",
                       approved |-> ~users[i].approved, closure |-> users]]
  /\ UNCHANGED <<userRows, users, usersFetching, toast>>

\* update({approved}).eq('id', userId) returned
ApproveDenyReturns(c) ==
  /\ userCall[c].kind = "approve"
  /\ userCall' = [userCall EXCEPT ![c] = NoUserCall]
  /\ \E ok \in BOOLEAN :
       IF ok
         THEN /\ userRows' = IF MayUpdate(userRows, authUser, userCall[c].id)
                               THEN [userRows EXCEPT ![userCall[c].id].approved = userCall[c].approved]
                               ELSE userRows
              /\ users' = [i \in 1..Len(userCall[c].closure) |->
                             IF userCall[c].closure[i].id = userCall[c].id
                               THEN [userCall[c].closure[i] EXCEPT !.approved = userCall[c].approved]
                               ELSE userCall[c].closure[i]]
              /\ toast' = Toast("Success", "User approved / denied", 0)
         ELSE /\ toast' = Toast("Error", "Failed to update user status.", 0)
              /\ UNCHANGED <<userRows, users>>
  /\ UNCHANGED usersFetching

\* the page is opened again: the mount effect fetches
ReloadUsers ==
  /\ ~usersFetching
  /\ \A c \in UserCallIds : userCall[c].kind = "none"
  /\ usersFetching' = TRUE
  /\ UNCHANGED <<userRows, users, userCall, toast>>

(***************************************************************************)
(* SpecUsers: a signed-in user, administrator or not, on the User          *)
(* Management page.  Signup leaves a new user with role 'pending' and      *)
(* approved = false.                                                       *)
(***************************************************************************)
InitUsers ==
  /\ build = "pages"
  /\ NotifInit
  /\ ReportsInit
  /\ EditInit /\ SessionInit
  /\ FormInit /\ StoreInit /\ SubmitInit /\ FilesInit
  /\ authLoading = FALSE
  /\ authUser \in UserIds
  /\ signingIn = FALSE
  /\ signingUp = FALSE
  /\ sessionChecked = TRUE
  /\ requested = <<"admin", "users">>
  /\ location = <<"admin", "users">>
  /\ screen = "UserManagement"
  /\ userRows \in [UserIds -> {UserRow("admin", TRUE), UserRow("pending", FALSE)}]
  /\ users = <<>>
  /\ usersFetching = TRUE      \* the fetch of the mount effect
  /\ userCall = [c \in UserCallIds |-> NoUserCall]

notUsers == <<build, formName, fields, csvFile, storeVars, submitVars, filesVars, routeVars, notifVars,
             reportVars, editVars, sessVars>>

\* one handler at a time
OneUserCall == CHOOSE c \in UserCallIds : \A d \in UserCallIds : c <= d

UsersLoaded == FetchUsersReturns /\ UNCHANGED notUsers
ChangeRole == HandleRoleChange(OneUserCall, Roles) /\ UNCHANGED notUsers
ChangeRoleDone == RoleChangeReturns(OneUserCall) /\ UNCHANGED notUsers
ApproveDeny == HandleApproveDeny(OneUserCall) /\ UNCHANGED notUsers
ApproveDenyDone == ApproveDenyReturns(OneUserCall) /\ UNCHANGED notUsers
OpenUsersAgain == ReloadUsers /\ UNCHANGED notUsers

NextUsers ==
  \/ UsersLoaded
  \/ ChangeRole
  \/ ChangeRoleDone
  \/ ApproveDeny
  \/ ApproveDenyDone
  \/ OpenUsersAgain

SpecUsers == InitUsers /\ [][NextUsers]_vars

\* C14 as stated: a step that takes a user's role away from 'pending' is
\* taken by a signed-in user whose own role is 'admin'.
C14_RoleLeavesPendingOnlyByAdmin ==
  [][\A u \in UserIds :
       (userRows[u].role = "pending" /\ userRows'[u].role # "pending")
         => userRows[authUser].role = "admin"]_vars

(***************************************************************************)
(* The auth gate while the context is loading.                             *)
(***************************************************************************)
\* a step that leaves the gate loading shows no protected view and does not
\* move the visitor to the login view they did not ask for
LoadingGateIsInert ==
  authLoading' =>
    /\ screen' \notin ProtectedScreens(build)
    /\ (location' = LoginPath(build) /\ location # LoginPath(build))
         => requested' = LoginPath(build)

\* C15: the gate starts loading and is loading in every state in which no
\* session check (getSession or an auth-change event) has resolved yet; and
\* while it is loading no protected view is on screen and no step redirects
\* to the login view.
C15_LoadingUntilSessionCheck ==
  /\ authLoading = TRUE
  /\ [][(~sessionChecked' => authLoading') /\ LoadingGateIsInert]_vars

\* the second half of C15 alone
LoadingGateNeverActs == [][LoadingGateIsInert]_vars

\* C16: whenever an authenticated visitor navigates to a protected route, the
\* router stays at that route and renders the route's own page.
C16_AuthenticatedIsAdmitted ==
  [][(NavigateTo /\ Authenticated /\ IsProtected(build, requested'))
       => /\ location' = requested'
          /\ screen' = BestMatch(build, requested').element]_vars

\* the same for the build of part_000 alone, whose guard wraps the page
AdmittedWhereTheGuardWrapsThePage ==
  [][(NavigateTo /\ Authenticated /\ IsProtected(build, requested')
        /\ build = "unnamed")
       => /\ location' = requested'
          /\ screen' = BestMatch(build, requested').element]_vars

\* a user whose row in public.users has approved = TRUE in every run
ApprovedUser == 2

\* C17: whenever an authenticated user whose row has approved = FALSE
\* navigates to a protected route, the gate neither redirects nor holds them
\* back: they stay at the route and see what an approved user sees there.
C17_GateIgnoresApproved ==
  [][(NavigateTo /\ Authenticated /\ ~Approved(userRows, authUser)
        /\ IsProtected(build, requested'))
       => /\ location' = requested'
          /\ location' = Resolve(build, requested', FALSE, ApprovedUser).location
          /\ screen' = Resolve(build, requested', FALSE, ApprovedUser).screen]_vars

\* C17 witness: an authenticated user who is not approved stands at a
\* protected route, past the gate
C17_Witness ==
  /\ Authenticated
  /\ ~Approved(userRows, authUser)
  /\ Approved(userRows, ApprovedUser)
  /\ IsProtected(build, requested)
  /\ location = requested
  /\ screen \notin {"Loading", "PendingApproval"}

(***************************************************************************)
(* The numbers of the activity rows a submission writes.                   *)
(***************************************************************************)
IsNumeric(x) == x.t = "num"

\* the rows the finished submission added to the store
Written == activities \ before.activities

NumbersStoredAsNumbers ==
  /\ \A a \in Written : IsNumeric(a.quantity) /\ IsNumeric(a.rate)
  /\ \A i \in 1..Len(submitted.activities) :
       LET s == submitted.activities[i]
       IN  \E a \in Written :
             /\ a.name = s.name
             /\ ~IsNumeric(s.quantity) => a.quantity = Num(0)
             /\ ~IsNumeric(s.rate) => a.rate = Num(0)

\* C18: after a create-project submission that reports success, every
\* activity row it wrote has a number as quantity and as rate, and a
\* submitted value that is not a number (empty, NaN) is stored as 0.
C18_StoredQuantityAndRateAreNumbers == ReportedSuccess => NumbersStoredAsNumbers

\* the same for the build of src/src/pages/NewProject.tsx alone, which writes
\* Number(value) || 0
PagesStoreNumbers == (ReportedSuccess /\ build = "pages") => NumbersStoredAsNumbers

(***************************************************************************)
(* Where a create-project submission navigates.                            *)
(***************************************************************************)
DetailView(projectId) == <<"projects", projectId>>

NavigatesToDetailIffSaved ==
  /\ navigatedTo # <<>> => pc = "done"
  /\ pc = "done" =>
       /\ navigatedTo = DetailView(newProjectId) <=> ReportedSuccess
       /\ navigatedTo # <<>> =>
            /\ navigatedTo = DetailView(newProjectId)
            /\ \E p \in projects : p.id = newProjectId
            /\ Cardinality(Written) = Len(submitted.activities)

\* C19: a finished create-project submission has navigated to the detail
\* view of the project it created exactly when it reported success; it has
\* navigated nowhere else, and when it navigated the project row and the
\* activity rows were already in the store.
C19_NavigatesToNewProjectIffSaved == NavigatesToDetailIffSaved

\* the same for the build of src/src/pages/NewProject.tsx alone
PagesNavigateToDetail == build = "pages" => NavigatesToDetailIffSaved

(***************************************************************************)
(* The Reports page (src/src/pages/NewProject.tsx lines 341-580).          *)
(* A row of the projects query is [name, vendor, status, start_date,       *)
(* end_date, completion_percentage, activities]; a name and the text of    *)
(* the name filter are sequences of letters.                               *)
(***************************************************************************)
MaxReportProjects == 2   \* rows the projects query returns

ReportNames == { <<"A", "b">>, <<"c">> }
ReportVendors == {"V", "W"}
ReportStatuses == {"ongoing", "completed"}
ReportActivities == { <<>>, <<[quantity |-> Num(2), rate |-> Num(3)],
                             [quantity |-> Null, rate |-> Num(3)]>> }

ReportRows ==
  [name : ReportNames, vendor : ReportVendors, status : ReportStatuses,
   start_date : {"d1"}, end_date : {"d2"}, completion_percentage : {50},
   activities : ReportActivities]

\* what the user can type into the name filter and pick in the two Selects
ProjectFilterTexts == { <<>>, <<"a">>, <<"A", "B">> }
VendorFilterItems == {"", "V"}
StatusFilterItems == {"", "ongoing", "delayed"}

\* x || 0 for a column value: null, NaN and 0 are falsy
ColumnOrZero(x) == IF x.t = "num" THEN x.v ELSE 0

RECURSIVE ReduceBudget(_)
\* activities.reduce((sum, a) => sum + (a.quantity || 0) * (a.rate || 0), 0)
ReduceBudget(acts) ==
  IF acts = <<>> THEN 0
  ELSE ReduceBudget(SubSeq(acts, 1, Len(acts) - 1))
         + ColumnOrZero(acts[Len(acts)].quantity) * ColumnOrZero(acts[Len(acts)].rate)

\* const { activities, ...rest } = project; { ...rest, total_budget }
ProjectsWithBudget(rows) ==
  [i \in 1..Len(rows) |->
     [name |-> rows[i].name, vendor |-> rows[i].vendor, status |-> rows[i].status,
      start_date |-> rows[i].start_date, end_date |-> rows[i].end_date,
      completion_percentage |-> rows[i].completion_percentage,
      total_budget |-> ReduceBudget(rows[i].activities)]]

\* a filter that compares the letters as they are typed
ToLowerCaseNot(c) == c

\* String.prototype.toLowerCase, letter by letter
ToLowerCase(c) == CASE c = "A" -> "a" [] c = "B" -> "b" [] c = "C" -> "c" [] OTHER -> c

LowerCased(s) == [i \in 1..Len(s) |-> ToLowerCase(s[i])]

\* String.prototype.includes
Includes(s, sub) ==
  \E i \in 1..(Len(s) + 1) :
    /\ i + Len(sub) - 1 <= Len(s)
    /\ SubSeq(s, i, i + Len(sub) - 1) = sub

\* the predicate of projects.filter (lines 437-442)
FilterMatch(p, f) ==
  LET projectMatch == IF f.project # <<>>
                        THEN Includes(LowerCased(p.name), LowerCased(f.project))
                        ELSE TRUE
      vendorMatch == IF f.vendor # "" THEN p.vendor = f.vendor ELSE TRUE
      statusMatch == IF f.status # "" THEN p.status = f.status ELSE TRUE
  IN  projectMatch /\ vendorMatch /\ statusMatch

FilteredProjects(ps, f) ==
  LET Keep(p) == FilterMatch(p, f)
  IN  SelectSeq(ps, Keep)

\* Number.prototype.toFixed(2) of a whole number
ToFixed2(n) == [whole |-> n, decimals |-> <<"0", "0">>]

CsvHeader ==
  <<"Project Name", "Vendor", "Status", "Start Date", "End Date",
    "Completion %", "Total Budget">>

CsvRow(p) ==
  <<p.name, p.vendor, p.status, p.start_date, p.end_date,
    p.completion_percentage, ToFixed2(p.total_budget)>>

\* csvData (lines 445-456)
CsvData(ps, f) ==
  LET shown == FilteredProjects(ps, f)
  IN  <<CsvHeader>> \o [i \in 1..Len(shown) |-> CsvRow(shown[i])]

\* every render computes csvData from the state it sees
RenderReport == csvData' = CsvData(reportProjects', reportFilters')

\* fetchProjectsForReport after its await
FetchProjectsForReportReturns ==
  /\ reportLoading
  /\ reportLoading' = FALSE
  /\ \E ok \in BOOLEAN :
       IF ok
         THEN /\ reportProjects' = ProjectsWithBudget(reportRows)
              /\ UNCHANGED toast
         ELSE /\ toast' = Toast("Error", "Failed to load report data.", 0)
              /\ UNCHANGED reportProjects
  /\ UNCHANGED <<reportRows, reportFilters>>
  /\ RenderReport

\* the three filter controls: setFilters({ ...filters, key: value })
SetProjectFilter ==
  /\ \E text \in ProjectFilterTexts :
       reportFilters' = [reportFilters EXCEPT !.project = text]
  /\ UNCHANGED <<reportRows, reportProjects, reportLoading, toast>>
  /\ RenderReport

SetVendorFilter ==
  /\ \E item \in VendorFilterItems :
       reportFilters' = [reportFilters EXCEPT !.vendor = item]
  /\ UNCHANGED <<reportRows, reportProjects, reportLoading, toast>>
  /\ RenderReport

SetStatusFilter ==
  /\ \E item \in StatusFilterItems :
       reportFilters' = [reportFilters EXCEPT !.status = item]
  /\ UNCHANGED <<reportRows, reportProjects, reportLoading, toast>>
  /\ RenderReport

RECURSIVE SeqsUpTo(_, _)
\* the sequences over S of length at most n
SeqsUpTo(S, n) ==
  IF n = 0 THEN {<<>>}
  ELSE LET shorter == SeqsUpTo(S, n - 1)
       IN  shorter \cup {Append(q, x) : q \in shorter, x \in S}

(***************************************************************************)
(* SpecReports: a signed-in user opens the Reports page and sets filters   *)
(* while and after the projects load.                                      *)
(***************************************************************************)
InitReports ==
  /\ build = "pages"
  /\ NotifInit /\ UsersInit /\ EditInit /\ SessionInit
  /\ FormInit /\ StoreInit /\ SubmitInit /\ FilesInit
  /\ authLoading = FALSE
  /\ authUser = 1
  /\ signingIn = FALSE
  /\ signingUp = FALSE
  /\ sessionChecked = TRUE
  /\ requested = <<"reports">>
  /\ location = <<"reports">>
  /\ screen = "Reports"
  /\ reportRows \in SeqsUpTo(ReportRows, MaxReportProjects)
  /\ reportProjects = <<>>
  /\ reportLoading = TRUE
  /\ reportFilters = NoFilters
  /\ csvData = CsvData(<<>>, NoFilters)

notReports == <<build, formName, fields, csvFile, storeVars, submitVars, filesVars,
                routeVars, notifVars, userVars, editVars, sessVars>>

ReportLoaded == FetchProjectsForReportReturns /\ UNCHANGED notReports
FilterByName == SetProjectFilter /\ UNCHANGED notReports
FilterByVendor == SetVendorFilter /\ UNCHANGED notReports
FilterByStatus == SetStatusFilter /\ UNCHANGED notReports

NextReports ==
  \/ ReportLoaded
  \/ FilterByName
  \/ FilterByVendor
  \/ FilterByStatus

SpecReports == InitReports /\ [][NextReports]_vars

(***************************************************************************)
(* Properties of the report export.                                        *)
(***************************************************************************)
\* two letters that differ at most in case
SameLetter(c, d) == c = d \/ {c, d} \in {{"a", "A"}, {"b", "B"}, {"c", "C"}}

\* the name contains the text, case-insensitively
NameContains(name, text) ==
  \E i \in 1..(Len(name) + 1) :
    /\ i + Len(text) - 1 <= Len(name)
    /\ \A j \in 1..Len(text) : SameLetter(name[i + j - 1], text[j])

\* the project passes all active filters; an empty filter passes everything
Passes(p, f) ==
  /\ f.project = <<>> \/ NameContains(p.name, f.project)
  /\ f.vendor = "" \/ p.vendor = f.vendor
  /\ f.status = "" \/ p.status = f.status

Passing == {i \in 1..Len(reportProjects) : Passes(reportProjects[i], reportFilters)}

\* the index of the k-th passing project
NthPassing(k) ==
  CHOOSE i \in Passing : Cardinality({j \in Passing : j <= i}) = k

\* C20: the export is the header row followed by exactly one row per loaded
\* project that passes all active filters, in the order of the list, and by
\* no row for a project that fails a filter.
C20_ExportIsHeaderAndPassingProjects ==
  /\ Len(csvData) = 1 + Cardinality(Passing)
  /\ csvData[1] = CsvHeader
  /\ \A k \in 1..Cardinality(Passing) :
       csvData[k + 1] = CsvRow(reportProjects[NthPassing(k)])

\* C20 witness: two projects are loaded, the name filter differs in case from
\* the name it matches, and the export has the row of the one project that
\* passes and none for the other
C20_Witness ==
  /\ Len(reportProjects) = 2
  /\ reportFilters.project = <<"a">>
  /\ reportFilters.vendor = "V"
  /\ Passing = {2}
  /\ Len(csvData) = 2
  /\ csvData[2][1] = <<"A", "b">>
  /\ csvData[2][7] = ToFixed2(6)

(***************************************************************************)
(* The Edit Project page (src/src/pages/EditProject.tsx) in two browser    *)
(* tabs, and the tables that hang on a project.  The migration file holds  *)
(* several definitions of the tables:                                      *)
(*   "owner"   lines 196-296, with a DELETE policy on projects and on      *)
(*             activities                                                  *)
(*   "public"  lines 450-757, with no DELETE policy on either, so that a   *)
(*             delete sent by the app sees no row and removes none         *)
(* In all of them project_id REFERENCES projects (id) ON DELETE CASCADE.   *)
(***************************************************************************)
MaxEditIds == 4     \* generated primary keys while forms are submitted

Schemas == {"owner", "public"}

\* the id in the path /projects/:id/edit
EditedProject == 1

\* whether delete() on activities reaches rows (lines 287-296; none in
\* lines 534-562)
MayDeleteActivities(sch) == sch = "owner"

\* what a tab submits: a project name and the rows of the form
EditInputs ==
  { [name |-> <<"P">>, activities |-> <<>>],
    [name |-> <<"P">>, activities |-> <<Activity(<<"x">>, Num(1), "", Num(1))>>],
    [name |-> <<"Q">>, activities |-> <<Activity(<<"y">>, NaN, "", Num(2))>>],
    [name |-> <<"Q">>, activities |-> <<Activity(<<"x">>, Num(1), "", Num(1)),
                                        Activity(<<"y">>, NaN, "", Num(2))>>] }

CommentRow(id, projectId) == [id |-> id, project_id |-> projectId]

ProjectExists(id) == \E p \in projects : p.id = id

ActivitiesOf(rows, id) == {a \in rows : a.project_id = id}

\* update({name, ...}).eq('id', id): the rows with that id, none if there is none
UpdateProject(rows, id, name) ==
  {IF p.id = id THEN [p EXCEPT !.name = name] ELSE p : p \in rows}

\* lines 154-162: the rows get the project's id and Number(x) || 0, the same
\* expression as in NewProject.tsx; id: undefined lets the store make the id
EditActivitiesToInsert(acts, id) == ActivitiesToInsert("pages", acts, id)

\* delete().eq('project_id', id)
WithoutProject(rows, id) == {r \in rows : r.project_id # id}

\* a cascade that leaves the rows of the other tables behind
CascadeNone(rows, id) == rows

\* ON DELETE CASCADE: the rows that reference the project go with it
Cascade(rows, id) == {r \in rows : r.project_id # id}

\* the catch and finally blocks of onSubmit (lines 175-184)
EditFails(t, step) ==
  edits' = [edits EXCEPT ![t].pc = "done",
                         ![t].failed = step,
                         ![t].shown = Toast("Error updating project", step, 0),
                         ![t].isSubmitting = FALSE]

\* lines 172-173, and finally
EditSucceeds(t) ==
  edits' = [edits EXCEPT ![t].pc = "done",
                         ![t].shown = Toast("Success", "Project updated successfully.", 0),
                         ![t].navigatedTo = DetailView(EditedProject),
                         ![t].isSubmitting = FALSE]

\* onSubmit up to the first await (lines 118-139); the submit button is
\* disabled while isSubmitting (line 360)
OnSubmitEdit(t) ==
  /\ edits[t].pc = "idle"
  /\ ~edits[t].isSubmitting
  /\ nextRowId <= MaxEditIds
  /\ \E data \in EditInputs :
       edits' = [edits EXCEPT ![t].pc = "update",
                              ![t].data = data,
                              ![t].before = ActivitiesOf(activities, EditedProject),
                              ![t].isSubmitting = TRUE]
  /\ UNCHANGED <<projects, activities, nextRowId, fileRows, nextFileId, commentRows, schema>>

\* from('projects').update(...).eq('id', id) returned (lines 127-141)
ProjectUpdateReturns(t) ==
  /\ edits[t].pc = "update"
  /\ \E ok \in BOOLEAN :
       IF ok
         THEN /\ projects' = UpdateProject(projects, EditedProject, edits[t].data.name)
              /\ edits' = [edits EXCEPT ![t].pc = "delete"]
         ELSE /\ EditFails(t, "project")
              /\ UNCHANGED projects
  /\ UNCHANGED <<activities, nextRowId, fileRows, nextFileId, commentRows, schema>>

\* from('activities').delete().eq('project_id', id) returned (lines 146-151)
ActivitiesDeleteReturns(t) ==
  /\ edits[t].pc = "delete"
  /\ \E ok \in BOOLEAN :
       IF ok
         THEN /\ activities' = IF MayDeleteActivities(schema)
                                 THEN WithoutProject(activities, EditedProject)
                                 ELSE activities
              /\ IF Len(edits[t].data.activities) > 0
                   THEN edits' = [edits EXCEPT ![t].pc = "insert"]
                   ELSE EditSucceeds(t)
         ELSE /\ EditFails(t, "delete")
              /\ UNCHANGED activities
  /\ UNCHANGED <<projects, nextRowId, fileRows, nextFileId, commentRows, schema>>

\* from('activities').insert(activitiesToInsert) returned (lines 164-168);
\* the foreign key rejects rows for a project that is not there
EditInsertReturns(t) ==
  /\ edits[t].pc = "insert"
  /\ \E ok \in BOOLEAN :
       IF ok /\ ProjectExists(EditedProject)
         THEN /\ activities' = activities \cup
                   InsertActivities(EditActivitiesToInsert(edits[t].data.activities,
                                                           EditedProject), nextRowId)
              /\ nextRowId' = nextRowId + Len(edits[t].data.activities)
              /\ EditSucceeds(t)
         ELSE /\ EditFails(t, "activities")
              /\ UNCHANGED <<activities, nextRowId>>
  /\ UNCHANGED <<projects, fileRows, nextFileId, commentRows, schema>>

\* the user opens the edit page again
ReopenEdit(t) ==
  /\ edits[t].pc = "done"
  /\ edits' = [edits EXCEPT ![t] = EditIdle]
  /\ UNCHANGED <<projects, activities, nextRowId, fileRows, nextFileId, commentRows, schema>>

\* the insert of part_005 lines 93-105 at the store: a files row for the
\* project, rejected by the foreign key when the project is not there
FileRowInsert ==
  /\ nextFileId <= MaxFileId
  /\ \E ok \in BOOLEAN :
       IF ok /\ ProjectExists(EditedProject)
         THEN /\ fileRows' = fileRows \cup
                   {FileRow(nextFileId, <<"f">>, PublicUrl(NoPath), EditedProject, 1)}
              /\ nextFileId' = nextFileId + 1
         ELSE UNCHANGED <<fileRows, nextFileId>>
  /\ UNCHANGED <<projects, activities, nextRowId, commentRows, schema, edits>>

\* the delete of part_005 lines 142-146 at the store
FileRowDelete ==
  /\ \E row \in fileRows : fileRows' = fileRows \ {row}
  /\ UNCHANGED <<projects, activities, nextRowId, nextFileId, commentRows, schema, edits>>

\* a project is created: the project insert of NewProject.onSubmit
ProjectInsert ==
  /\ nextRowId <= MaxEditIds
  /\ projects' = projects \cup {ProjectRow(nextRowId, <<"N">>, 1)}
  /\ nextRowId' = nextRowId + 1
  /\ UNCHANGED <<activities, fileRows, nextFileId, commentRows, schema, edits>>

\* the activity insert of NewProject.onSubmit for a project created before,
\* which may be gone by now
ActivityInsert ==
  /\ nextRowId <= MaxEditIds
  /\ \E id \in 1..(nextRowId - 1), ok \in BOOLEAN :
       /\ id # EditedProject
       /\ IF ok /\ ProjectExists(id)
            THEN /\ activities' = activities \cup
                      InsertActivities(ActivitiesToInsert(build, <<Activity(<<"n">>, Num(1), "", Num(1))>>, id),
                                       nextRowId)
                 /\ nextRowId' = nextRowId + 1
            ELSE UNCHANGED <<activities, nextRowId>>
  /\ UNCHANGED <<projects, fileRows, nextFileId, commentRows, schema, edits>>

\* from('projects').delete().eq('id', id) reaches the row (part_003 line 165
\* under a DELETE policy, or the service role): the rows that reference the
\* project are deleted with it
ProjectDelete ==
  /\ \E p \in projects :
       /\ projects' = projects \ {p}
       /\ activities' = Cascade(activities, p.id)
       /\ fileRows' = Cascade(fileRows, p.id)
       /\ commentRows' = Cascade(commentRows, p.id)
  /\ UNCHANGED <<nextRowId, nextFileId, schema, edits>>

(***************************************************************************)
(* SpecEdit: project 1 exists and is open in the edit page of two tabs;    *)
(* meanwhile files are uploaded and deleted and projects are created and   *)
(* deleted.                                                                *)
(***************************************************************************)
OldActivity ==
  ActivityRow(2, [project_id |-> EditedProject, name |-> <<"old">>,
                  quantity |-> Num(1), unit |-> "", rate |-> Num(1)])

InitEdit ==
  /\ build = "pages"
  /\ NotifInit /\ UsersInit /\ ReportsInit /\ SessionInit
  /\ FormInit /\ SubmitInit
  /\ authLoading = FALSE
  /\ authUser = 1
  /\ signingIn = FALSE
  /\ signingUp = FALSE
  /\ sessionChecked = TRUE
  /\ requested = <<"projects", "1", "edit">>
  /\ location = <<"projects", "1", "edit">>
  /\ screen = "EditProject"
  /\ blobs = {}
  /\ clock = 0
  /\ files = {}
  /\ fetching = FALSE
  /\ selectedFile = NoName
  /\ uploading = FALSE
  /\ up = UpIdle
  /\ del = DelIdle
  /\ fileRows = {}
  /\ nextFileId = 1
  /\ schema \in Schemas
  /\ projects = {ProjectRow(EditedProject, <<"P">>, 1)}
  /\ activities \in {{}, {OldActivity}}
  /\ nextRowId = 3
  /\ commentRows \in {{}, {CommentRow(1, EditedProject)}}
  /\ edits = [t \in Tabs |-> EditIdle]

notEdit == <<build, formVars, submitVars, blobs, clock, files, fetching, selectedFile,
             uploading, up, del, routeVars, notifVars, userVars, reportVars, sessVars>>

SubmitEdit == (\E t \in Tabs : OnSubmitEdit(t)) /\ UNCHANGED notEdit
ProjectUpdateDone == (\E t \in Tabs : ProjectUpdateReturns(t)) /\ UNCHANGED notEdit
ActivitiesDeleteDone == (\E t \in Tabs : ActivitiesDeleteReturns(t)) /\ UNCHANGED notEdit
EditInsertDone == (\E t \in Tabs : EditInsertReturns(t)) /\ UNCHANGED notEdit
EditAgain == (\E t \in Tabs : ReopenEdit(t)) /\ UNCHANGED notEdit
FileRowInserted == FileRowInsert /\ UNCHANGED notEdit
FileRowDeleted == FileRowDelete /\ UNCHANGED notEdit
ProjectInserted == ProjectInsert /\ UNCHANGED notEdit
ActivityInserted == ActivityInsert /\ UNCHANGED notEdit
ProjectDeleted == ProjectDelete /\ UNCHANGED notEdit

NextEdit ==
  \/ SubmitEdit
  \/ ProjectUpdateDone
  \/ ActivitiesDeleteDone
  \/ EditInsertDone
  \/ EditAgain
  \/ ProjectDeleted

SpecEdit == InitEdit /\ [][NextEdit]_vars

(***************************************************************************)
(* SpecStore: the same store while one tab edits project 1, files are      *)
(* uploaded and deleted, and projects are created and deleted.             *)
(***************************************************************************)
FirstTab == CHOOSE t \in Tabs : \A u \in Tabs : t <= u

SubmitOneEdit == OnSubmitEdit(FirstTab) /\ UNCHANGED notEdit
OneUpdateDone == ProjectUpdateReturns(FirstTab) /\ UNCHANGED notEdit
OneDeleteDone == ActivitiesDeleteReturns(FirstTab) /\ UNCHANGED notEdit
OneInsertDone == EditInsertReturns(FirstTab) /\ UNCHANGED notEdit
OneEditAgain == ReopenEdit(FirstTab) /\ UNCHANGED notEdit

NextStore ==
  \/ SubmitOneEdit
  \/ OneUpdateDone
  \/ OneDeleteDone
  \/ OneInsertDone
  \/ OneEditAgain
  \/ FileRowInserted
  \/ FileRowDeleted
  \/ ProjectInserted
  \/ ActivityInserted
  \/ ProjectDeleted

SpecStore == InitEdit /\ [][NextStore]_vars

(***************************************************************************)
(* Properties of the tables around a project.                              *)
(***************************************************************************)
\* C21: in every reachable state of the store every activity row, every
\* file row and every comment row references a project row that exists; in
\* particular the rows of a deleted project are gone with it.
C21_RowsReferenceExistingProjects ==
  /\ \A a \in activities : ProjectExists(a.project_id)
  /\ \A f \in fileRows : ProjectExists(f.project_id)
  /\ \A c \in commentRows : ProjectExists(c.project_id)

\* C21 witness: the edited project, which had activities, was deleted while
\* an edit of it was under way, and the edit's insert was rejected
C21_Witness ==
  /\ ~ProjectExists(EditedProject)
  /\ edits[FirstTab].before # {}
  /\ edits[FirstTab].failed = "activities"
  /\ nextFileId > 1
  /\ projects # {}

(***************************************************************************)
(* Properties of the edit page.                                            *)
(***************************************************************************)
EditReportedSuccess(t) ==
  /\ edits[t].pc = "done"
  /\ edits[t].failed = "none"
  /\ edits[t].shown.title = "Success"

EditReportedError(t) ==
  /\ edits[t].pc = "done"
  /\ edits[t].shown.title = "Error updating project"

\* a stored row without its generated id
RowContent(r) ==
  [project_id |-> r.project_id, name |-> r.name, quantity |-> r.quantity,
   unit |-> r.unit, rate |-> r.rate]

StoredContent(id) == {RowContent(r) : r \in ActivitiesOf(activities, id)}

\* the contents of the rows a tab's form stores
SentContent(t) ==
  {RowContent(r) :
     r \in InsertActivities(EditActivitiesToInsert(edits[t].data.activities, EditedProject), 0)}

StoredAsSentBy(t) ==
  /\ \A p \in projects : p.id = EditedProject => p.name = edits[t].data.name
  /\ StoredContent(EditedProject) = SentContent(t)
  /\ Cardinality(ActivitiesOf(activities, EditedProject)) = Len(edits[t].data.activities)

\* C22: where delete() reaches the rows, and the project is still there, once
\* the submissions of both tabs have reported success the project's name and
\* its activity rows are those of one of the two submissions.
C22_LastWriteWins ==
  (/\ schema = "owner"
   /\ ProjectExists(EditedProject)
   /\ \A t \in Tabs : EditReportedSuccess(t))
  => \E t \in Tabs : StoredAsSentBy(t)

C26_SuccessfulEditStoresSubmittedRows ==
  (EditReportedSuccess(FirstTab) /\ ProjectExists(EditedProject))
  => /\ StoredContent(EditedProject) = SentContent(FirstTab)
     /\ Cardinality(ActivitiesOf(activities, EditedProject))
          = Len(edits[FirstTab].data.activities)
     /\ ActivitiesOf(activities, EditedProject) \cap edits[FirstTab].before = {}
     /\ \A a \in ActivitiesOf(activities, EditedProject) :
          \A b \in edits[FirstTab].before : a.id # b.id

(***************************************************************************)
(* SpecForms: the three pages that submit to the store, each as opened:    *)
(* the create-project page, the Files page of project 1, the edit page of  *)
(* project 1.  A page's handlers run on that page only.                    *)
(***************************************************************************)
InitForms == Init \/ InitFiles \/ InitEdit

OnNewProject == screen = "NewProject" /\ Next
OnFiles == screen = "Files" /\ NextFiles
OnEditProject == screen = "EditProject" /\ NextStore

NextForms ==
  \/ OnNewProject
  \/ OnFiles
  \/ OnEditProject

SpecForms == InitForms /\ [][NextForms]_vars

(***************************************************************************)
(* Properties of failed submissions.                                       *)
(***************************************************************************)
CreateFailed == screen = "NewProject" /\ pc = "done" /\ failedStep # "none"

UploadFailed == screen = "Files" /\ up.pc = "done" /\ up.failed # "none"

EditFailed(t) == screen = "EditProject" /\ edits[t].pc = "done" /\ edits[t].failed # "none"

\* the notifications of a create-project submission that did not go through
CreateErrorToasts ==
  { Toast("Error", "User not authenticated.", 0),
    Toast("Authentication Error", "User not logged in.", 0),
    Toast("Error creating project", failedStep, 0),
    Toast("Failed to Create Project", failedStep, 0) }

\* C23: a create-project, edit-project or file-upload submission that failed
\* has not navigated, the page is still the one it was submitted on, the
\* notification shown is the error notification with the failed step's error,
\* and isSubmitting / uploading is false again.
C23_FailedSubmissionStaysWithError ==
  /\ CreateFailed =>
       /\ navigatedTo = NoNav
       /\ location = <<"projects", "new">>
       /\ toast \in CreateErrorToasts
       /\ ~isSubmitting
  /\ UploadFailed =>
       /\ location = requested
       /\ up.shown = Toast("Error uploading file", up.failed, 0)
       /\ ~uploading
  /\ \A t \in Tabs :
       EditFailed(t) =>
         /\ edits[t].navigatedTo = NoNav
         /\ location = <<"projects", "1", "edit">>
         /\ edits[t].shown = Toast("Error updating project", edits[t].failed, 0)
         /\ ~edits[t].isSubmitting

\* C23 witness: a create-project submission whose activity insert failed
\* after the project row was stored
C23_Witness ==
  /\ CreateFailed
  /\ failedStep = "activities"
  /\ newProjectId # 0
  /\ Len(submitted.activities) > 0

(***************************************************************************)
(* Properties of the compensating calls.                                   *)
(***************************************************************************)
\* the compensating delete of the create-project page returned an error
ProjectCleanupFailed == screen = "NewProject" /\ pc = "done" /\ cleanup = "failed"

\* the compensating storage.remove of the Files page returned an error
BlobCleanupFailed == screen = "Files" /\ up.pc = "done" /\ up.cleanup = "failed"

CleanupFailureIsNotShown ==
  /\ ProjectCleanupFailed =>
       /\ failedStep = "activities"
       /\ toast = Toast("Failed to Create Project", "activities", 0)
  /\ BlobCleanupFailed =>
       /\ up.failed = "insert"
       /\ up.shown = Toast("Error uploading file", "insert", 0)

\* a compensating call is entered from the failed insert only, and when it
\* has returned the submission is over
CleanupIsAttemptedOnce ==
  /\ (pc' = "compensate" /\ pc # "compensate") => pc = "insertActivities"
  /\ (pc = "compensate" /\ pc' # "compensate") => pc' = "done"
  /\ (up'.pc = "remove" /\ up.pc # "remove") => up.pc = "insert"
  /\ (up.pc = "remove" /\ up'.pc # "remove") => up'.pc = "done"

\* C24: a compensating call (the delete of the project after a failed
\* activity insert, the removal of the object after a failed insert of the
\* file row) is made once per failed insert; when it fails itself, the
\* submission ends with the error notification of the insert that failed and
\* the failure of the compensating call is not shown.
C24_FailedCleanupIsSilentAndNotRetried ==
  /\ []CleanupFailureIsNotShown
  /\ [][CleanupIsAttemptedOnce]_vars

\* C24 witness: the object of an upload stayed in storage because both the
\* insert of the file row and the removal of the object failed
C24_Witness ==
  /\ BlobCleanupFailed
  /\ up.path \in blobs
  /\ fileRows = {}

(***************************************************************************)
(* The AuthProvider (src/unnamed/part_001 lines 16-78) against the auth    *)
(* client.  session is the user of the session the client holds; every     *)
(* change of it is reported to the listener of lines 22-28 at once.  The   *)
(* initial getSession() of lines 31-35 reads the session at one moment and *)
(* its then-callback runs at a later one.                                  *)
(***************************************************************************)
AuthUsers == {1, 2}

\* lines 22-28: the listener stores the session's user and ends loading
Listener(sessionUser) ==
  /\ authUser' = sessionUser
  /\ authLoading' = FALSE
  /\ sessionChecked' = TRUE

\* getSession() reads the session the client holds
GetSessionReads ==
  /\ getSession.pc = "pending"
  /\ getSession' = [pc |-> "read", user |-> session]
  /\ UNCHANGED <<session, authCalls, authUser, authLoading, sessionChecked, location, screen>>

\* lines 31-35: the then-callback of getSession() stores what was read
GetSessionResolves ==
  /\ getSession.pc = "read"
  /\ getSession' = [getSession EXCEPT !.pc = "done"]
  /\ authUser' = getSession.user
  /\ authLoading' = FALSE
  /\ sessionChecked' = TRUE
  /\ Render(location, FALSE, getSession.user)
  /\ UNCHANGED <<session, authCalls>>

\* signIn up to its await (lines 43-45)
SignIn(c) ==
  /\ authCalls[c].pc = "idle"
  /\ \E u \in AuthUsers :
       authCalls' = [authCalls EXCEPT ![c] = [pc |-> "called", kind |-> "signIn", user |-> u]]
  /\ authLoading' = TRUE
  /\ Render(location, TRUE, authUser)
  /\ UNCHANGED <<session, getSession, authUser, sessionChecked>>

\* signOut up to its await (lines 65-67)
SignOut(c) ==
  /\ authCalls[c].pc = "idle"
  /\ authCalls' = [authCalls EXCEPT ![c] = [pc |-> "called", kind |-> "signOut", user |-> NoUser]]
  /\ authLoading' = TRUE
  /\ Render(location, TRUE, authUser)
  /\ UNCHANGED <<session, getSession, authUser, sessionChecked>>

\* signInWithPassword / signOut returned: on success the client holds the
\* new session and has told the listener, and the rest of signIn (lines
\* 46-50) or signOut (lines 68-71) stores the same user; on an error only
\* loading ends
AuthCallReturns(c) ==
  /\ authCalls[c].pc = "called"
  /\ authCalls' = [authCalls EXCEPT ![c] = NoAuthCall]
  /\ \E ok \in BOOLEAN :
       IF ok
         THEN /\ session' = authCalls[c].user
              /\ Listener(authCalls[c].user)
              /\ Render(location, FALSE, authCalls[c].user)
         ELSE /\ authLoading' = FALSE
              /\ Render(location, FALSE, authUser)
              /\ UNCHANGED <<session, authUser, sessionChecked>>
  /\ UNCHANGED getSession

\* a change of the session that no call of the context made (the Auth page
\* and the dashboard call supabase.auth themselves, part_001 line 111; the
\* session ends or is replaced in another tab): the listener is told
SessionReplaced ==
  /\ \E u \in AuthUsers \cup {NoUser} :
       /\ session' = u
       /\ Listener(u)
       /\ Render(location, FALSE, u)
  /\ UNCHANGED <<getSession, authCalls>>

(***************************************************************************)
(* SpecAuth: the provider mounts on /auth with or without a stored         *)
(* session; sign-ins and sign-outs follow in any order.                    *)
(***************************************************************************)
InitAuth ==
  /\ build = "unnamed"
  /\ NotifInit /\ UsersInit /\ ReportsInit /\ EditInit
  /\ FormInit /\ StoreInit /\ SubmitInit /\ FilesInit
  /\ authLoading = TRUE
  /\ authUser = NoUser
  /\ signingIn = FALSE
  /\ signingUp = FALSE
  /\ sessionChecked = FALSE
  /\ requested = <<"auth">>
  /\ location = <<"auth">>
  /\ screen = "Auth"
  /\ session \in AuthUsers \cup {NoUser}
  /\ getSession = [pc |-> "pending", user |-> NoUser]
  /\ authCalls = [c \in AuthCallIds |-> NoAuthCall]
  /\ accounts = {}
  /\ signup = SignupIdle

notAuth == <<build, formVars, storeVars, submitVars, filesVars, signingIn, signingUp,
             requested, notifVars, userVars, reportVars, editVars, accounts, signup>>

SessionRead == GetSessionReads /\ UNCHANGED notAuth
SessionResolved == GetSessionResolves /\ UNCHANGED notAuth
SignInCalled == (\E c \in AuthCallIds : SignIn(c)) /\ UNCHANGED notAuth
SignOutCalled == (\E c \in AuthCallIds : SignOut(c)) /\ UNCHANGED notAuth
AuthCallDone == (\E c \in AuthCallIds : AuthCallReturns(c)) /\ UNCHANGED notAuth
SessionChanged == SessionReplaced /\ UNCHANGED notAuth

NextAuth ==
  \/ SessionRead
  \/ SessionResolved
  \/ SignInCalled
  \/ SignOutCalled
  \/ AuthCallDone
  \/ SessionChanged

SpecAuth == InitAuth /\ [][NextAuth]_vars

\* C27: once the listener or getSession has stored a session, the context's
\* user is the user of the session the auth client holds; the callback of
\* the initial getSession puts no older session over a newer one.
C27_ContextUserIsCurrentSession ==
  sessionChecked => authUser = session

(***************************************************************************)
(* SpecUsersOverlap: an administrator on the User Management page, whose   *)
(* buttons and selects stay enabled while a handler awaits the store, so   *)
(* that a second handler starts before the first has returned.             *)
(***************************************************************************)
OverlapRoles == {"employee"}

InitUsersOverlap ==
  /\ build = "pages"
  /\ NotifInit
  /\ ReportsInit
  /\ EditInit /\ SessionInit
  /\ FormInit /\ StoreInit /\ SubmitInit /\ FilesInit
  /\ authLoading = FALSE
  /\ authUser = 1
  /\ signingIn = FALSE
  /\ signingUp = FALSE
  /\ sessionChecked = TRUE
  /\ requested = <<"admin", "users">>
  /\ location = <<"admin", "users">>
  /\ screen = "UserManagement"
  /\ userRows = [u \in UserIds |-> IF u = 1 THEN UserRow("admin", TRUE)
                                            ELSE UserRow("pending", FALSE)]
  /\ users = <<>>
  /\ usersFetching = TRUE
  /\ userCall = [c \in UserCallIds |-> NoUserCall]

AnyChangeRole == (\E c \in UserCallIds : HandleRoleChange(c, OverlapRoles)) /\ UNCHANGED notUsers
AnyChangeRoleDone == (\E c \in UserCallIds : RoleChangeReturns(c)) /\ UNCHANGED notUsers
AnyApproveDeny == (\E c \in UserCallIds : HandleApproveDeny(c)) /\ UNCHANGED notUsers
AnyApproveDenyDone == (\E c \in UserCallIds : ApproveDenyReturns(c)) /\ UNCHANGED notUsers

NextUsersOverlap ==
  \/ UsersLoaded
  \/ AnyChangeRole
  \/ AnyChangeRoleDone
  \/ AnyApproveDeny
  \/ AnyApproveDenyDone
  \/ OpenUsersAgain

SpecUsersOverlap == InitUsersOverlap /\ [][NextUsersOverlap]_vars

\* what a handler that stores value in field of user id makes of a list
WithChange(list, call) ==
  [i \in 1..Len(list) |->
     IF list[i].id # call.id THEN list[i]
     ELSE IF call.kind = "role" THEN [list[i] EXCEPT !.role = call.role]
     ELSE [list[i] EXCEPT !.approved = call.approved]]

\* handler c has returned with success in this step
UserCallSucceeded(c) ==
  /\ userCall[c].kind # "none"
  /\ userCall'[c].kind = "none"
  /\ toast'.title = "Success"

\* C28: a handleApproveDeny or handleRoleChange that returns with success
\* changes, in the list on screen, the targeted field of the targeted user
\* and nothing else, also when it was started before an earlier handler
\* returned: what that earlier handler put into the list stays.
C28_OperationChangesOnlyItsTarget ==
  [][\A c \in UserCallIds :
       UserCallSucceeded(c) => users' = WithChange(users, userCall[c])]_vars

(***************************************************************************)
(* Properties of the submit control of the create-project page.            *)
(***************************************************************************)
\* C29: at most one onSubmit of the create-project form is between its
\* first await and its finally; while one is, the submit control is
\* disabled; and the submission of a form has inserted at most one project
\* row.
C29_OneCreateSequenceInFlight ==
  /\ inFlight \in {0, 1}
  /\ inFlight = 1 => SubmitDisabled(isSubmitting)
  /\ pc # "idle" => Cardinality(projects \ before.projects) <= 1

\* C29 witness: a submission has stored its project row and awaits the
\* insert of its activities, in a store that held a project already
C29_Witness ==
  /\ inFlight = 1
  /\ pc = "insertActivities"
  /\ Cardinality(projects \ before.projects) = 1
  /\ before.projects # {}

(***************************************************************************)
(* The Signup page (src/src/pages/Signup.tsx lines 20-69) with the signUp  *)
(* of the AuthProvider (src/unnamed/part_001 lines 53-63) against the auth *)
(* service and the users table.  An account is [id, email].                *)
(***************************************************************************)
MaxAccounts == 3

Emails == {"a", "b", "c"}

Account(id, email) == [id |-> id, email |-> email]

\* what AuthProvider.signUp returns: data of supabase.auth.signUp, an object
\* with the keys user and session (part_001 line 62)
SignUpResult(id, opened) == [user |-> id, session |-> IF opened THEN id ELSE NoUser]

\* const { data: authData, error: authError } = await signUp(...): the
\* value of a key the object does not have is undefined
Destructured(result, key) ==
  IF key \in DOMAIN result THEN [defined |-> TRUE, value |-> result[key]]
  ELSE [defined |-> FALSE, value |-> NoUser]

\* the row of public.users that handleSignup inserts (lines 35-45)
HasPendingRow(rows, id) ==
  /\ id \in DOMAIN rows
  /\ rows[id].role = "pending"
  /\ rows[id].approved = FALSE

\* handleSignup up to the await inside AuthProvider.signUp; the button is
\* disabled while isSigningUp (line 130)
SubmitSignup ==
  /\ screen = "Signup"
  /\ signup.pc = "idle"
  /\ ~signingUp
  /\ Cardinality(accounts) < MaxAccounts
  /\ \E email \in Emails :
       signup' = [SignupIdle EXCEPT !.pc = "signUp", !.email = email]
  /\ signingUp' = TRUE
  /\ authLoading' = TRUE
  /\ UNCHANGED <<accounts, session, authUser, sessionChecked, toast, userRows>>

\* the catch and finally blocks of handleSignup (lines 59-68)
SignupFails(step, id) ==
  /\ signup' = [signup EXCEPT !.pc = "done", !.failed = step, !.account = id,
                  !.shown = Toast("Registration failed", step, 0)]
  /\ toast' = Toast("Registration failed", step, 0)
  /\ signingUp' = FALSE

\* supabase.auth.signUp returned.  On an error signUp throws it.  Otherwise
\* the account exists, with a session unless the address has to be confirmed
\* first; signUp stores data.user and returns data.  handleSignup takes the
\* keys data and error of what it got: both are undefined, the check of
\* authError passes, and reading authData.user (line 38) throws a TypeError
\* inside the try block, before the insert into users is sent.
AuthSignUpReturns ==
  /\ signup.pc = "signUp"
  /\ authLoading' = FALSE
  /\ UNCHANGED userRows
  /\ \E ok \in BOOLEAN, opened \in BOOLEAN :
       IF ok /\ \A a \in accounts : a.email # signup.email
         THEN LET id == Cardinality(accounts) + 1
                  authData == Destructured(SignUpResult(id, opened), "data")
                  authError == Destructured(SignUpResult(id, opened), "error")
              IN  /\ accounts' = accounts \cup {Account(id, signup.email)}
                  /\ session' = IF opened THEN id ELSE session
                  /\ authUser' = id
                  /\ sessionChecked' = (sessionChecked \/ opened)
                  /\ ~authError.defined
                  /\ ~authData.defined
                  /\ SignupFails("TypeError", id)
         ELSE /\ SignupFails("auth", NoUser)
              /\ UNCHANGED <<accounts, session, authUser, sessionChecked>>

\* the visitor fills in the form again
SignupAgain ==
  /\ signup.pc = "done"
  /\ signup' = SignupIdle
  /\ UNCHANGED <<accounts, session, authUser, authLoading, sessionChecked, signingUp,
                 toast, userRows>>

(***************************************************************************)
(* SpecSignup: visitors register on /signup, one after the other.          *)
(***************************************************************************)
InitSignup ==
  /\ build = "pages"
  /\ NotifInit /\ ReportsInit /\ EditInit
  /\ FormInit /\ StoreInit /\ SubmitInit /\ FilesInit
  /\ authLoading = FALSE
  /\ authUser = NoUser
  /\ signingIn = FALSE
  /\ signingUp = FALSE
  /\ sessionChecked = TRUE
  /\ requested = <<"signup">>
  /\ location = <<"signup">>
  /\ screen = "Signup"
  /\ userRows = <<>>
  /\ users = <<>>
  /\ usersFetching = FALSE
  /\ userCall = [c \in UserCallIds |-> NoUserCall]
  /\ session = NoUser
  /\ getSession = [pc |-> "done", user |-> NoUser]
  /\ authCalls = [c \in AuthCallIds |-> NoAuthCall]
  /\ accounts = {}
  /\ signup = SignupIdle

notSignup == <<build, formName, fields, csvFile, storeVars, submitVars, filesVars, signingIn,
               requested, location, screen, notifVars, users, usersFetching, userCall,
               reportVars, editVars, getSession, authCalls>>

SignupSubmitted == SubmitSignup /\ UNCHANGED notSignup
AuthSignUpDone == AuthSignUpReturns /\ UNCHANGED notSignup
SignupRetried == SignupAgain /\ UNCHANGED notSignup

NextSignup ==
  \/ SignupSubmitted
  \/ AuthSignUpDone
  \/ SignupRetried

SpecSignup == InitSignup /\ [][NextSignup]_vars

\* C30: when a signup attempt is over, every account of the auth service
\* has its row in users, with role 'pending' and approved = false.
C30_EveryAccountHasPendingRow ==
  signup.pc = "done" => \A a \in accounts : HasPendingRow(userRows, a.id)

====
